---- MODULE Spec2Model ----
(***************************************************************************)
(* A model of f90nml: the Fortran namelist tokenizer, parser (with patch   *)
(* mode), the in-memory Namelist (case-insensitive ordered mapping with    *)
(* cogroups) and the serializer.                                           *)
(*                                                                         *)
(* Text, tokens and names are strings; a character is a string of length   *)
(* one.  Python values are tagged records:                                 *)
(*   None -> [t |-> "null"]          int  -> [t |-> "int",  v |-> n]       *)
(*   bool -> [t |-> "bool", v |-> b] str  -> [t |-> "str",  v |-> s]       *)
(*   float-> [t |-> "real", v |-> s] list -> [t |-> "list", v |-> <<..>>]  *)
(*   Namelist -> [t |-> "nml", keys, vals, start_index, cogroups]          *)
(***************************************************************************)
EXTENDS Integers, Sequences, FiniteSets, TLC

VARIABLES
    pc,             \* position of the running operation
    parser,         \* the Parser object: token stream, patch output, settings
    nmls,           \* _readstream: the Namelist being built
    nml_patch,      \* _readstream: the patch not yet applied
    g_name,         \* _readstream: name of the open group
    g_vars,         \* _readstream: variables of the open group
    grp_patch,      \* _readstream: the patch of the open group
    input,          \* what the running scenario was started with
    output,         \* text written by Namelist.write or by the patch
    nml,            \* the Namelist object the API operations act on
    lastop,         \* the last API operation and its outcome
    merged,         \* merge_values: the result
    fs              \* the files on disk and the handles opened on them

vars == <<pc, parser, nmls, nml_patch, g_name, g_vars, grp_patch, input,
          output, nml, lastop, merged, fs>>

\* A file system: the text of every file that exists, the handles that are
\* open, and the opens and closes in the order they happened
FileSystem(files, handles, log) == [files |-> files, handles |-> handles, log |-> log]

\* No file exists and nothing was opened
NoFiles == FileSystem([p \in {} |-> ""], {}, <<>>)

----------------------------------------------------------------------------
(* Characters and strings                                                  *)

Char(s, i) == SubSeq(s, i, i)

Digits == "0123456789"
LowerLetters == "abcdefghijklmnopqrstuvwxyz"
UpperLetters == "ABCDEFGHIJKLMNOPQRSTUVWXYZ"

RECURSIVE IndexIn(_, _, _)
\* 1-based position of character c in s at or after i, 0 when absent
IndexIn(c, s, i) ==
    IF i > Len(s) THEN 0
    ELSE IF Char(s, i) = c THEN i
    ELSE IndexIn(c, s, i + 1)

InStr(c, s) == Len(c) = 1 /\ IndexIn(c, s, 1) > 0

IsDigit(c) == InStr(c, Digits)
IsAlpha(c) == InStr(c, LowerLetters) \/ InStr(c, UpperLetters)
IsAlnum(c) == IsAlpha(c) \/ IsDigit(c)

LowerChar(c) ==
    IF InStr(c, UpperLetters)
    THEN Char(LowerLetters, IndexIn(c, UpperLetters, 1))
    ELSE c

UpperChar(c) ==
    IF InStr(c, LowerLetters)
    THEN Char(UpperLetters, IndexIn(c, LowerLetters, 1))
    ELSE c

RECURSIVE Lower(_)
\* str.lower()
Lower(s) == IF s = "" THEN "" ELSE LowerChar(Head(s)) \o Lower(Tail(s))

RECURSIVE Upper(_)
\* str.upper()
Upper(s) == IF s = "" THEN "" ELSE UpperChar(Head(s)) \o Upper(Tail(s))

StartsWith(s, p) == Len(s) >= Len(p) /\ SubSeq(s, 1, Len(p)) = p

RECURSIVE AllDigits(_)
AllDigits(s) == s = "" \/ (IsDigit(Head(s)) /\ AllDigits(Tail(s)))

RECURSIVE DigitsToNat(_, _)
DigitsToNat(s, acc) ==
    IF s = "" THEN acc
    ELSE DigitsToNat(Tail(s), 10 * acc + (IndexIn(Head(s), Digits, 1) - 1))

RECURSIVE NatToStr(_)
NatToStr(n) ==
    IF n < 10 THEN Char(Digits, n + 1)
    ELSE NatToStr(n \div 10) \o Char(Digits, (n % 10) + 1)

\* str(n) of a Python int
IntToStr(n) == IF n < 0 THEN "-" \o NatToStr(0 - n) ELSE NatToStr(n)

\* int(s) succeeds: an optional sign and at least one digit
IsIntStr(s) ==
    LET body == IF s # "" /\ Head(s) \in {"+", "-"} THEN Tail(s) ELSE s
    IN  body # "" /\ AllDigits(body)

StrToInt(s) ==
    IF Head(s) = "-" THEN 0 - DigitsToNat(Tail(s), 0)
    ELSE IF Head(s) = "+" THEN DigitsToNat(Tail(s), 0)
    ELSE DigitsToNat(s, 0)

RECURSIVE Spaces(_)
Spaces(n) == IF n <= 0 THEN "" ELSE " " \o Spaces(n - 1)

RECURSIVE Replace2(_, _, _)
\* s.replace(a, b) for a two-character pattern a
Replace2(s, a, b) ==
    IF Len(s) < 2 THEN s
    ELSE IF SubSeq(s, 1, 2) = a THEN b \o Replace2(SubSeq(s, 3, Len(s)), a, b)
    ELSE Head(s) \o Replace2(Tail(s), a, b)

RECURSIVE RStrip(_)
\* str.rstrip()
RStrip(s) ==
    IF s # "" /\ Char(s, Len(s)) \in {" ", "\n", "\t"}
    THEN RStrip(SubSeq(s, 1, Len(s) - 1))
    ELSE s

RECURSIVE LStrip(_)
\* str.lstrip()
LStrip(s) ==
    IF s # "" /\ Head(s) \in {" ", "\n", "\t"} THEN LStrip(Tail(s)) ELSE s

RECURSIVE IsSpace(_)
\* str.isspace(): non-empty and whitespace only
IsSpace(s) ==
    /\ s # ""
    /\ Head(s) \in {" ", "\n", "\t"}
    /\ (Len(s) = 1 \/ IsSpace(Tail(s)))

----------------------------------------------------------------------------
(* Python values                                                           *)

NoneV == [t |-> "null"]
IntV(n) == [t |-> "int", v |-> n]
BoolV(b) == [t |-> "bool", v |-> b]
StrV(s) == [t |-> "str", v |-> s]
RealV(s) == [t |-> "real", v |-> s]
ListV(s) == [t |-> "list", v |-> s]

IsNone(x) == x.t = "null"
IsList(x) == x.t = "list"
IsDict(x) == x.t = "nml"

EmptyMap == [k \in {} |-> NoneV]
MapSet(m, k, v) == [x \in DOMAIN m \cup {k} |-> IF x = k THEN v ELSE m[x]]
MapDel(m, k) == [x \in DOMAIN m \ {k} |-> m[x]]

SeqRemoveAt(s, i) == SubSeq(s, 1, i - 1) \o SubSeq(s, i + 1, Len(s))

RECURSIVE SeqIndex(_, _, _)
\* 1-based position of the first element of s equal to x at or after i, else 0
SeqIndex(s, x, i) ==
    IF i > Len(s) THEN 0
    ELSE IF s[i] = x THEN i
    ELSE SeqIndex(s, x, i + 1)

RECURSIVE NoneList(_)
NoneList(n) == IF n <= 0 THEN <<>> ELSE <<NoneV>> \o NoneList(n - 1)

----------------------------------------------------------------------------
(* The Namelist: a case-insensitive ordered mapping with cogroups          *)

Namelist(keys, vals, si, cg) ==
    [t |-> "nml", keys |-> keys, vals |-> vals, start_index |-> si,
     cogroups |-> cg]

\* Namelist()
EmptyNml == Namelist(<<>>, <<>>, EmptyMap, EmptyMap)

RECURSIVE LastIndexIn(_, _, _)
\* 1-based position of the last occurrence of c in s at or before i, else 0
LastIndexIn(c, s, i) ==
    IF i < 1 THEN 0
    ELSE IF Char(s, i) = c THEN i
    ELSE LastIndexIn(c, s, i - 1)

\* grp.rsplit('_', 1)[0]
RSplitHead(s) ==
    LET i == LastIndexIn("_", s, Len(s))
    IN  IF i = 0 THEN s ELSE SubSeq(s, 1, i - 1)

\* The cogroup name of an internal key
CogroupBasename(grp) ==
    IF StartsWith(grp, "_grp_")
    THEN RSplitHead(SubSeq(grp, 6, Len(grp)))
    ELSE grp

\* OrderedDict primitives on the internal keys
DictHas(n, k) == SeqIndex(n.keys, k, 1) > 0
DictGet(n, k) == n.vals[SeqIndex(n.keys, k, 1)]
DictSet(n, k, v) ==
    LET i == SeqIndex(n.keys, k, 1)
    IN  IF i > 0
        THEN [n EXCEPT !.vals[i] = v]
        ELSE [n EXCEPT !.keys = Append(@, k), !.vals = Append(@, v)]
DictDel(n, k) ==
    LET i == SeqIndex(n.keys, k, 1)
    IN  [n EXCEPT !.keys = SeqRemoveAt(@, i), !.vals = SeqRemoveAt(@, i)]

\* len(nml) > 0
Truthy(n) == Len(n.keys) > 0

\* bool(x) of any value
PyTruthy(x) ==
    CASE x.t = "null" -> FALSE
      [] x.t = "nml" -> Truthy(x)
      [] x.t = "list" -> x.v # <<>>
      [] x.t = "int" -> x.v # 0
      [] x.t = "bool" -> x.v
      [] x.t = "str" -> x.v # ""
      [] OTHER -> TRUE

\* Namelist.__contains__ for the lowered key
HasLKey(n, lkey) == DictHas(n, lkey) \/ lkey \in DOMAIN n.cogroups

\* Namelist.__contains__
NmlContains(n, key) == HasLKey(n, Lower(key))

\* Cogroup.keys: the internal keys whose NmlKey equals the cogroup name
CogroupKeys(n, lkey) ==
    SelectSeq(n.keys, LAMBDA k : CogroupBasename(k) = lkey)

\* Cogroup.__init__ over the keys ks: the list view of a repeated group
CogroupView(n, lkey, ks) ==
    [t |-> "cogroup", key |-> lkey,
     v |-> [i \in 1..Len(ks) |-> DictGet(n, ks[i])]]

\* Cogroup(nml, key)
Cogroup(n, lkey) == CogroupView(n, lkey, CogroupKeys(n, lkey))

\* Namelist.__getitem__ raises KeyError
NmlMissing(n, key) == ~HasLKey(n, Lower(key))

\* Namelist.__getitem__ for the lowered key
GetLKey(n, lkey) ==
    IF lkey \in DOMAIN n.cogroups THEN Cogroup(n, lkey) ELSE DictGet(n, lkey)

\* Namelist.__getitem__ with a string key
NmlGetItem(n, key) == GetLKey(n, Lower(key))

\* Namelist.get for the lowered key
GetLKeyOrNone(n, lkey) == IF HasLKey(n, lkey) THEN GetLKey(n, lkey) ELSE NoneV

\* Namelist.get
NmlGet(n, key) == GetLKeyOrNone(n, Lower(key))

\* create_cogroup: the group at position grp_idx gets the internal key; the
\* pop of the group and the pop and re-add of every key after it amount to
\* a rename in place
RenameToCogroup(n, grp_key, grp_idx) ==
    [n EXCEPT !.keys[grp_idx] = "_grp_" \o grp_key \o "_0",
              !.cogroups = MapSet(@, grp_key, <<"_grp_" \o grp_key \o "_0">>)]

\* Namelist.create_cogroup for the lowered name
CreateLCogroup(n, grp_key) ==
    IF grp_key \in DOMAIN n.cogroups THEN n
    ELSE IF DictHas(n, grp_key)
    THEN RenameToCogroup(n, grp_key,
             SeqIndex([i \in 1..Len(n.keys) |-> CogroupBasename(n.keys[i])],
                      grp_key, 1))
    ELSE [n EXCEPT !.cogroups = MapSet(@, grp_key, <<>>)]

\* Namelist.create_cogroup
CreateCogroup(n, group_name) == CreateLCogroup(n, Lower(group_name))

RECURSIVE MaxId(_, _, _)
\* max(int(k.split(hdr)[1]) for k in keys), -1 for no keys
MaxId(ks, hdr, acc) ==
    IF ks = <<>> THEN acc
    ELSE MaxId(Tail(ks), hdr,
               IF StrToInt(SubSeq(Head(ks), Len(hdr) + 1, Len(Head(ks)))) > acc
               THEN StrToInt(SubSeq(Head(ks), Len(hdr) + 1, Len(Head(ks))))
               ELSE acc)

\* The internal key add_cogroup generates
NewCogroupKey(n, lkey) ==
    "_grp_" \o lkey \o "_"
    \o IntToStr(1 + MaxId(n.cogroups[lkey], "_grp_" \o lkey \o "_", -1))

\* add_cogroup: self[cogrp_key] = val and the record of the key
AppendCogroupKey(c, lkey, cogrp_key, val) ==
    [DictSet(c, Lower(cogrp_key), val) EXCEPT !.cogroups[lkey] = Append(@, cogrp_key)]

\* add_cogroup once the cogroup exists
AppendCogroup(c, lkey, val) ==
    AppendCogroupKey(c, lkey, NewCogroupKey(c, lkey), val)

\* The repeated group replaces the stored one
AddLCogroupReplace(n, lkey, val) == DictSet(n, lkey, val)

\* Namelist.add_cogroup for the lowered name
AddLCogroup(n, lkey, val) == AppendCogroup(CreateLCogroup(n, lkey), lkey, val)

\* Namelist.add_cogroup
AddCogroup(n, key, val) == AddLCogroup(n, Lower(key), val)

RECURSIVE AddCogroups(_, _, _)
\* for nml in value: self.add_cogroup(key, nml)
AddCogroups(n, lkey, vs) ==
    IF vs = <<>> THEN n
    ELSE AddCogroups(AddLCogroup(n, lkey, Head(vs)), lkey, Tail(vs))

\* The key is stored as it is written
NmlSetItemRaw(n, key, value) == DictSet(n, key, value)

\* Namelist.__setitem__ with a string key
NmlSetItem(n, key, value) ==
    IF value.t = "cogroup" THEN AddCogroups(n, Lower(key), value.v)
    ELSE DictSet(n, Lower(key), value)

\* Namelist.__setitem__ with an NmlKey (an internal key)
NmlSetKey(n, ikey, value) ==
    IF value.t = "cogroup"
    THEN AddCogroups(n, Lower(CogroupBasename(ikey)), value.v)
    ELSE DictSet(n, ikey, value)

RECURSIVE DictDelAll(_, _)
DictDelAll(n, ks) ==
    IF ks = <<>> THEN n ELSE DictDelAll(DictDel(n, Head(ks)), Tail(ks))

\* Namelist.__delitem__ for the lowered key raises KeyError
LKeyDelMissing(n, lkey) ==
    IF lkey \in DOMAIN n.cogroups
    THEN \E i \in 1..Len(n.cogroups[lkey]) : ~DictHas(n, n.cogroups[lkey][i])
    ELSE ~DictHas(n, lkey)

\* Namelist.__delitem__ for the lowered key
DelLKey(n, lkey) ==
    IF lkey \in DOMAIN n.cogroups
    THEN [DictDelAll(n, n.cogroups[lkey]) EXCEPT !.cogroups = MapDel(@, lkey)]
    ELSE DictDel(n, lkey)

\* Namelist.__delitem__ with a string key
NmlDelItem(n, key) == DelLKey(n, Lower(key))

\* Parser._readstream, lines 422-426: the group is added to the Namelist
StoreGroup(n, name, g) ==
    IF NmlContains(n, name) THEN AddCogroup(n, name, g) ELSE NmlSetItem(n, name, g)

----------------------------------------------------------------------------
(* The tokenizer (tokenizer.py)                                            *)

\* Tokenizer.punctuation (without the grave accent, which the texts of the
\* model never contain)
Punctuation == "=+-*/\\()[]{},:;%&~<>?|$#@"

Min2(a, b) == IF a < b THEN a ELSE b

\* Tokenizer.whitespace: string.whitespace without the newline
TkWhitespace == " \t\r"

\* Tokenizer.__init__; group_token "None" is None, "False" is False
NewTokenizer == [prior_delim |-> "", group_token |-> "None"]

\* The scanning state of Tokenizer.parse(line): pos is the number of
\* characters the iterator self.characters has yielded, idx is self.idx
ScanStart(tk, line) ==
    [line |-> line, pos |-> 0, char |-> "", idx |-> -1,
     prior_delim |-> tk.prior_delim, group_token |-> tk.group_token,
     tokens |-> <<>>, exc |-> ""]

\* Tokenizer.update_chars
update_chars(S) ==
    IF S.pos < Len(S.line)
    THEN [S EXCEPT !.char = Char(S.line, S.pos + 1), !.pos = @ + 1, !.idx = @ + 1]
    ELSE [S EXCEPT !.char = "\n", !.idx = @ + 1]

\* word += self.char; self.update_chars(), on a scan r = [S, word]
TakeChar(r) == [S |-> update_chars(r.S), word |-> r.word \o r.S.char]

\* The same when the character is one of chars
TakeCharIn(r, chars) == IF InStr(r.S.char, chars) THEN TakeChar(r) ELSE r

RECURSIVE ScanSpace(_)
\* while self.char in self.whitespace
ScanSpace(r) == IF InStr(r.S.char, TkWhitespace) THEN ScanSpace(TakeChar(r)) ELSE r

RECURSIVE ScanDigits(_)
\* while self.char.isdigit()
ScanDigits(r) == IF IsDigit(r.S.char) THEN ScanDigits(TakeChar(r)) ELSE r

RECURSIVE ScanAlpha(_)
\* while self.char.isalpha()
ScanAlpha(r) == IF IsAlpha(r.S.char) THEN ScanAlpha(TakeChar(r)) ELSE r

RECURSIVE ScanMantissa(_, _)
\* parse_numeric: digits with at most one decimal point
ScanMantissa(r, frac) ==
    IF IsDigit(r.S.char) \/ (r.S.char = "." /\ ~frac)
    THEN ScanMantissa(TakeChar(r), frac \/ r.S.char = ".")
    ELSE r

\* Tokenizer.parse_numeric continued from a scan
ScanNumeric(r) ==
    ScanDigits(TakeCharIn(TakeCharIn(ScanMantissa(TakeCharIn(r, "-"), FALSE),
                                     "eEdD"), "+-"))

\* Tokenizer.parse_numeric
parse_numeric(S) == ScanNumeric([S |-> S, word |-> ""])

RECURSIVE NameEnd(_, _)
\* parse_name: the end of the run of name characters of line from end
NameEnd(line, end) ==
    IF end < Len(line)
       /\ (IsAlnum(Char(line, end + 1)) \/ InStr(Char(line, end + 1), "'\"_"))
    THEN NameEnd(line, end + 1)
    ELSE end

\* parse_name: the word line[idx:end] is taken and the iterator advanced by
\* islice(self.characters, len(word) - 1, None), which raises ValueError for
\* the empty word
TakeName(S, end) ==
    IF end = S.idx
    THEN [S |-> [S EXCEPT !.exc = "ValueError"], word |-> ""]
    ELSE [S |-> update_chars(
                    [S EXCEPT !.idx = end - 1,
                              !.pos = @ + Min2(end - S.idx - 1, Len(S.line) - S.pos)]),
          word |-> SubSeq(S.line, S.idx + 1, end)]

\* Tokenizer.parse_name
parse_name(S) == TakeName(S, NameEnd(S.line, S.idx))

RECURSIVE ScanString(_, _)
RECURSIVE ScanQuote(_, _)

\* parse_string at a delimiter, n the state after it: a doubled delimiter is
\* part of the string, a single one ends it
ScanQuote(r, delim) ==
    IF r.S.char = delim
    THEN ScanString([S |-> update_chars(r.S), word |-> r.word \o delim \o delim],
                    delim)
    ELSE [S |-> r.S, word |-> r.word \o delim]

\* The loop of Tokenizer.parse_string
ScanString(r, delim) ==
    IF r.S.char = delim
    THEN ScanQuote([S |-> update_chars(r.S), word |-> r.word], delim)
    ELSE IF r.S.char = "\n"
    THEN [S |-> [r.S EXCEPT !.prior_delim = delim], word |-> r.word]
    ELSE ScanString(TakeChar(r), delim)

\* Tokenizer.parse_string
parse_string(S) ==
    IF S.prior_delim # ""
    THEN ScanString([S |-> [S EXCEPT !.prior_delim = ""], word |-> ""],
                    S.prior_delim)
    ELSE ScanString([S |-> update_chars(S), word |-> S.char], S.char)

RECURSIVE TakeAlpha(_, _)
\* takewhile(str.isalpha, lookahead): the letters from position pos + 1
TakeAlpha(line, pos) ==
    IF pos < Len(line) /\ IsAlpha(Char(line, pos + 1))
    THEN Char(line, pos + 1) \o TakeAlpha(line, pos + 1)
    ELSE ""

\* The sign branch once the lookahead has given ieee_val; takewhile also
\* consumes the first character that is no letter
TakeSigned(S, ieee_val) ==
    IF Lower(ieee_val) \in {"inf", "infinity", "nan"}
    THEN [S |-> IF S.pos + Len(ieee_val) + 1 < Len(S.line)
                THEN [S EXCEPT !.char = Char(S.line, S.pos + Len(ieee_val) + 2),
                               !.pos = S.pos + Len(ieee_val) + 2]
                ELSE [S EXCEPT !.char = "\n", !.pos = Len(S.line)],
          word |-> S.char \o ieee_val]
    ELSE parse_numeric(S)

\* The sign branch of Tokenizer.parse: an IEEE value or a number
parse_sign(S) == TakeSigned(S, TakeAlpha(S.line, S.pos))

\* The '.' branch of Tokenizer.parse after its update_chars
TakeDot(S) ==
    IF IsDigit(S.char) THEN ScanNumeric([S |-> S, word |-> "."])
    ELSE TakeCharIn(ScanAlpha([S |-> S, word |-> "."]), ".")

\* The '.' branch of Tokenizer.parse
parse_dot(S) == TakeDot(update_chars(S))

\* The group status update at the head of the loop of Tokenizer.parse
GroupToken(S) == IF S.char \in {"&", "$"} THEN S.char ELSE S.group_token

GroupStatus(S) ==
    IF <<GroupToken(S), S.char>> \in {<<"&", "/">>, <<"$", "$">>}
    THEN "False"
    ELSE GroupToken(S)

RECURSIVE ParseLoop(_)

\* tokens.append(word)
AppendToken(r) ==
    IF r.S.exc # "" THEN r.S
    ELSE ParseLoop([r.S EXCEPT !.tokens = Append(@, r.word)])

\* One token of Tokenizer.parse
ParseToken(S) ==
    AppendToken(
        IF InStr(S.char, TkWhitespace) THEN ScanSpace([S |-> S, word |-> ""])
        ELSE IF S.char \in {"!", "#"} \/ S.group_token = "None"
        THEN [S |-> [S EXCEPT !.char = "\n"],
              word |-> SubSeq(S.line, S.idx + 1, Len(S.line) - 1)]
        ELSE IF InStr(S.char, "\"'") \/ S.prior_delim # ""
        THEN parse_string(S)
        ELSE IF IsAlpha(S.char) THEN parse_name(S)
        ELSE IF S.char \in {"+", "-"} THEN parse_sign(S)
        ELSE IF IsDigit(S.char) THEN parse_numeric(S)
        ELSE IF S.char = "." THEN parse_dot(S)
        ELSE IF InStr(S.char, Punctuation)
        THEN [S |-> update_chars(S), word |-> S.char]
        ELSE [S |-> [S EXCEPT !.exc = "ValueError"], word |-> ""])

\* The loop of Tokenizer.parse
ParseLoop(S) ==
    IF S.char = "\n" \/ S.exc # "" THEN S
    ELSE ParseToken([S EXCEPT !.group_token = GroupStatus(S)])

\* The tokens and the tokenizer's state after a line
TokenizerResult(S) ==
    [tokens |-> S.tokens, exc |-> S.exc,
     tk |-> [prior_delim |-> S.prior_delim, group_token |-> S.group_token]]

\* Tokenizer.parse(line)
TokenizerParse(tk, line) ==
    TokenizerResult(ParseLoop(update_chars(ScanStart(tk, line))))

RECURSIVE SplitLines(_, _)
\* str.splitlines(True): the lines of text, each with its newline
SplitLines(text, line) ==
    IF text = "" THEN (IF line = "" THEN <<>> ELSE <<line>>)
    ELSE IF Head(text) = "\n"
    THEN <<line \o "\n">> \o SplitLines(Tail(text), "")
    ELSE SplitLines(Tail(text), line \o Head(text))

\* toks[-1] += s
ExtendLast(toks, s) == [toks EXCEPT ![Len(toks)] = @ \o s]

\* toks[-1] += new_toks[0]; toks.extend(new_toks[1:]), for new_toks not empty
AttachTokens(toks, new_toks) ==
    IF new_toks = <<>> THEN toks
    ELSE ExtendLast(toks, new_toks[1]) \o Tail(new_toks)

\* Lines 317-332: the tokens of a continuation line are attached, the
\* leading whitespace to the last token
ContinuedTokens(toks, new_toks) ==
    IF new_toks = <<>> THEN toks
    ELSE IF IsSpace(new_toks[1])
    THEN AttachTokens(ExtendLast(toks, new_toks[1]), Tail(new_toks))
    ELSE AttachTokens(toks, new_toks)

RECURSIVE ContinueString(_, _, _)

\* The body of the while tokenizer.prior_delim loop, r the next line's tokens
ContinueWith(toks, lines, r) ==
    IF r.exc # ""
    THEN [tk |-> r.tk, toks |-> toks, lines |-> Tail(lines), exc |-> r.exc]
    ELSE ContinueString(r.tk, ContinuedTokens(toks, r.tokens), Tail(lines))

\* The while tokenizer.prior_delim loop of _readstream: a string that runs
\* over the end of a line is continued with the tokens of the next lines
ContinueString(tk, toks, lines) ==
    IF tk.prior_delim = "" THEN [tk |-> tk, toks |-> toks, lines |-> lines, exc |-> ""]
    ELSE IF lines = <<>>
    THEN [tk |-> tk, toks |-> toks, lines |-> lines, exc |-> "StopIteration"]
    ELSE ContinueWith(toks, lines, TokenizerParse(tk, Head(lines)))

RECURSIVE LexLoop(_, _, _)

\* toks.append('\n'); f90lex.extend(toks)
LexExtend(f90lex, c) ==
    IF c.exc # "" THEN [f90lex |-> <<>>, exc |-> c.exc]
    ELSE LexLoop(c.tk, c.lines, f90lex \o c.toks \o <<"\n">>)

\* The tokens of one line and of the lines that continue its string
LexLine(f90lex, lines, r) ==
    IF r.exc # "" THEN [f90lex |-> <<>>, exc |-> r.exc]
    ELSE LexExtend(f90lex, ContinueString(r.tk, r.tokens, Tail(lines)))

\* Lines 312-334: the tokenizing loop of _readstream
LexLoop(tk, lines, f90lex) ==
    IF lines = <<>> THEN [f90lex |-> f90lex, exc |-> ""]
    ELSE LexLine(f90lex, lines, TokenizerParse(tk, Head(lines)))

\* f90lex of the lines of a file
Lex(tk, lines) == LexLoop(tk, lines, <<>>)

----------------------------------------------------------------------------
(* Conversion of Fortran literals (fpy.py)                                 *)

RECURSIVE InsertExp(_, _)
\* re.sub('(?<=[^eEdD])(?=[+-])', 'e', s): an 'e' before every sign that
\* follows a character other than e or d; prev is the preceding character
InsertExp(s, prev) ==
    IF s = "" THEN ""
    ELSE (IF Head(s) \in {"+", "-"} /\ prev # "" /\ ~InStr(prev, "eEdD")
          THEN "e" ELSE "")
         \o Head(s) \o InsertExp(Tail(s), Head(s))

RECURSIVE ReplaceChar(_, _, _)
ReplaceChar(s, a, b) ==
    IF s = "" THEN ""
    ELSE (IF Head(s) = a THEN b ELSE Head(s)) \o ReplaceChar(Tail(s), a, b)

\* v_str.lower().replace('d', 'e') followed by the re.sub
PyFloatText(v_str) == InsertExp(ReplaceChar(Lower(v_str), "d", "e"), "")

\* digits [. [digits]] | . digits
IsDecimal(s) ==
    LET dot == IndexIn(".", s, 1)
        ip == IF dot = 0 THEN s ELSE SubSeq(s, 1, dot - 1)
        fp == IF dot = 0 THEN "" ELSE SubSeq(s, dot + 1, Len(s))
    IN  AllDigits(ip) /\ AllDigits(fp) /\ (ip # "" \/ fp # "")

\* float(s) succeeds
IsPyFloat(s0) ==
    LET s == LStrip(RStrip(s0))
        body == IF s # "" /\ Head(s) \in {"+", "-"} THEN Tail(s) ELSE s
        e == IndexIn("e", body, 1)
        mant == IF e = 0 THEN body ELSE SubSeq(body, 1, e - 1)
        ex == IF e = 0 THEN "0" ELSE SubSeq(body, e + 1, Len(body))
    IN  \/ body \in {"inf", "infinity", "nan"}
        \/ IsDecimal(mant) /\ IsIntStr(ex)

\* pyfloat(v_str) succeeds
IsFloatStr(v_str) == IsPyFloat(PyFloatText(v_str))

\* pybool under strict_logical, and the first letter otherwise
BoolText(v_str, strict_logical) ==
    IF strict_logical THEN Lower(v_str)
    ELSE IF StartsWith(v_str, ".") THEN Lower(Char(v_str, 2))
    ELSE Lower(Char(v_str, 1))

IsTrueStr(v_str, strict) == BoolText(v_str, strict) \in {".true.", ".t.", "true", "t"}
IsFalseStr(v_str, strict) == BoolText(v_str, strict) \in {".false.", ".f.", "false", "f"}

\* pystr
pystr(v_str) ==
    LET quoted == InStr(Head(v_str), "'\"") /\ Head(v_str) = Char(v_str, Len(v_str))
        quote == Head(v_str)
    IN  IF quoted
        THEN Replace2(SubSeq(v_str, 2, Len(v_str) - 1), quote \o quote, quote)
        ELSE v_str

\* The recast loop of _parse_value: int, pyfloat, pycomplex, pybool, pystr
Recast(v_str, strict_logical) ==
    IF IsIntStr(v_str) THEN IntV(StrToInt(v_str))
    ELSE IF IsFloatStr(v_str) THEN RealV(PyFloatText(v_str))
    ELSE IF IsTrueStr(v_str, strict_logical) THEN BoolV(TRUE)
    ELSE IF IsFalseStr(v_str, strict_logical) THEN BoolV(FALSE)
    ELSE StrV(pystr(v_str))

\* The recast of the complex string '(re, im)'
RecastComplex(v_re, v_im) ==
    IF IsFloatStr(v_re) /\ IsFloatStr(" " \o v_im)
    THEN [t |-> "complex", re |-> PyFloatText(v_re), im |-> PyFloatText(v_im)]
    ELSE StrV("(" \o v_re \o ", " \o v_im \o ")")

----------------------------------------------------------------------------
(* Value formatting (Namelist._f90repr)                                    *)

\* The formatting properties Namelist.__init__ sets
DefaultFormat ==
    [column_width |-> 72, indent |-> "    ", end_comma |-> FALSE,
     uppercase |-> FALSE, false_repr |-> ".false.", true_repr |-> ".true.",
     index_spacing |-> FALSE, default_start_index |-> NoneV]

RECURSIVE ReprBody(_, _)
\* The body of repr(str) between quotes q
ReprBody(s, q) ==
    IF s = "" THEN ""
    ELSE (CASE Head(s) = "\\" -> "\\\\"
            [] Head(s) = "\n" -> "\\n"
            [] Head(s) = "\t" -> "\\t"
            [] Head(s) = "\r" -> "\\r"
            [] Head(s) = q /\ q = "'" -> "\\'"
            [] OTHER -> Head(s)) \o ReprBody(Tail(s), q)

\* repr(str(value)): double quotes only for a string with ' and without "
PyRepr(s) ==
    LET q == IF InStr("'", s) /\ ~InStr("\"", s) THEN "\"" ELSE "'"
    IN  q \o ReprBody(s, q) \o q

\* Namelist._f90str
f90str(value) ==
    Replace2(Replace2(Replace2(PyRepr(value), "\\'", "''"), "\\\"", "\"\""),
             "\\\\", "\\")

\* Namelist._f90repr raises ValueError
f90reprFails(value) == value.t \notin {"bool", "int", "real", "complex", "str", "null"}

\* Namelist._f90repr
f90repr(fmt, value) ==
    CASE value.t = "bool" -> IF value.v THEN fmt.true_repr ELSE fmt.false_repr
      [] value.t = "int" -> IntToStr(value.v)
      [] value.t = "real" -> value.v
      [] value.t = "complex" -> "(" \o value.re \o ", " \o value.im \o ")"
      [] value.t = "str" -> f90str(value.v)
      [] OTHER -> ""

----------------------------------------------------------------------------
(* The parser (parser.py)                                                  *)

\* string.whitespace
Whitespace == " \t\n\r"

\* Parser.__init__ with the token stream of _readstream; token "" is None;
\* out is the text written to pfile, exc the exception raised, warned that
\* a warning was given, and below_first that a value was placed at an index
\* below the first index of its axis
NewParser(f90lex, pfile) ==
    [tokens |-> f90lex, token |-> "", prior_token |-> "",
     pfile |-> pfile, out |-> "", exc |-> "", warned |-> FALSE,
     below_first |-> FALSE,
     default_start_index |-> 1, global_start_index |-> NoneV,
     comment_tokens |-> "!", sparse_arrays |-> FALSE, row_major |-> FALSE,
     strict_logical |-> TRUE]

Raise(M, e) == [M EXCEPT !.exc = e]

\* The lookahead of _update_tokens: the remaining tokens, the token read
\* last and the text copied to the patch file
Lookahead(tokens, next_token, patch_tokens, stop) ==
    [tokens |-> tokens, next_token |-> next_token,
     patch_tokens |-> patch_tokens, stop |-> stop]

RECURSIVE CommentLoop(_, _, _)
\* _update_tokens: copy a comment up to its newline
CommentLoop(tokens, next_token, patch_tokens) ==
    IF next_token = "\n" THEN Lookahead(tokens, next_token, patch_tokens, "")
    ELSE IF tokens = <<>> THEN Lookahead(tokens, next_token, patch_tokens, "raise")
    ELSE CommentLoop(Tail(tokens), Head(tokens), patch_tokens \o next_token)

RECURSIVE PaddingLoop(_, _, _, _)

\* The rest of one turn of the padding loop, c the lookahead after a comment
PaddingNext(M, c) ==
    IF c.stop # "" THEN c
    ELSE IF c.tokens = <<>>
    THEN Lookahead(<<>>, c.next_token,
                   c.patch_tokens \o (IF M.pfile THEN c.next_token ELSE ""),
                   "flush")
    ELSE PaddingLoop(M, Tail(c.tokens), Head(c.tokens),
                     c.patch_tokens \o (IF M.pfile THEN c.next_token ELSE ""))

\* _update_tokens: skip whitespace and comments; stop is "flush" when
\* StopIteration is caught in the loop, "raise" when it is not, and
\* "IndexError" for next_token[0] of an empty token
PaddingLoop(M, tokens, next_token, patch_tokens) ==
    IF next_token = ""
    THEN Lookahead(tokens, next_token, patch_tokens, "IndexError")
    ELSE IF ~InStr(Char(next_token, 1), M.comment_tokens \o Whitespace)
    THEN Lookahead(tokens, next_token, patch_tokens, "")
    ELSE IF M.pfile /\ InStr(Char(next_token, 1), M.comment_tokens)
    THEN PaddingNext(M, CommentLoop(tokens, next_token, patch_tokens))
    ELSE PaddingNext(M, Lookahead(tokens, next_token, patch_tokens, ""))

\* The text _update_tokens writes to the patch file
Written(patch_value, patch_skip, p) ==
    IF ~patch_skip \/ p.next_token \in {"=", "(", "%"}
    THEN patch_value \o p.patch_tokens
    ELSE p.patch_tokens

\* The end of _update_tokens, p the lookahead
Advanced(M, patch_value, patch_skip, p) ==
    CASE p.stop = "raise" ->
            [M EXCEPT !.tokens = p.tokens, !.exc = "StopIteration"]
      [] p.stop = "IndexError" ->
            [M EXCEPT !.tokens = p.tokens, !.exc = "IndexError"]
      [] p.stop = "flush" ->
            [M EXCEPT !.tokens = <<>>, !.exc = "StopIteration",
                      !.out = IF M.pfile
                              THEN @ \o Written(patch_value, patch_skip, p)
                              ELSE @]
      [] OTHER ->
            [M EXCEPT !.tokens = p.tokens,
                      !.token = p.next_token, !.prior_token = M.token,
                      !.out = IF M.pfile
                              THEN @ \o Written(patch_value, patch_skip, p)
                              ELSE @]

\* Parser._update_tokens; override "" is None
UpdateTokens(M, write_token, override, patch_skip) ==
    IF M.exc # "" THEN M
    ELSE IF M.tokens = <<>> THEN Raise(M, "StopIteration")
    ELSE IF M.pfile /\ write_token /\ override = "" /\ M.token = ""
    THEN Raise(M, "TypeError")
    ELSE Advanced(M,
                  IF M.pfile /\ write_token
                  THEN (IF override # "" THEN override ELSE M.token)
                  ELSE "",
                  patch_skip,
                  PaddingLoop(M, Tail(M.tokens), Head(M.tokens), ""))

\* self._update_tokens()
Advance(M) == UpdateTokens(M, TRUE, "", FALSE)

RECURSIVE check_for_value(_, _)
\* check_for_value over the lookahead
check_for_value(tokens, ntoks) ==
    IF tokens = <<>> THEN ntoks > 0
    ELSE IF IsSpace(Head(tokens)) \/ Head(tokens) = ","
    THEN check_for_value(Tail(tokens), ntoks)
    ELSE IF Head(tokens) \in {"=", "/", "$", "&"} THEN ntoks > 0
    ELSE IF ntoks + 1 > 1 THEN TRUE
    ELSE check_for_value(Tail(tokens), ntoks + 1)

\* A parser state with a value: the result of the parsing methods
WithValue(M, value) == [M |-> M, value |-> value]

\* _parse_value, the closing parenthesis of a complex number
ComplexClose(v_re, v_im, M3) ==
    IF M3.exc # "" THEN WithValue(M3, NoneV)
    ELSE IF M3.token # ")" THEN WithValue(Raise(M3, "AssertionError"), NoneV)
    ELSE WithValue(Advance(M3), RecastComplex(v_re, v_im))

\* _parse_value, the imaginary part
ComplexImag(v_re, M2) ==
    IF M2.exc # "" THEN WithValue(M2, NoneV)
    ELSE ComplexClose(v_re, M2.token, Advance(M2))

\* _parse_value, the comma of a complex number
ComplexComma(v_re, M1) ==
    IF M1.exc # "" THEN WithValue(M1, NoneV)
    ELSE IF M1.token # "," THEN WithValue(Raise(M1, "AssertionError"), NoneV)
    ELSE ComplexImag(v_re, Advance(M1))

\* Parser._parse_value: [M, value]
ParseValue(M) ==
    IF M.prior_token # "("
    THEN WithValue(M, Recast(M.prior_token, M.strict_logical))
    ELSE ComplexComma(M.token, Advance(M))

----------------------------------------------------------------------------
(* Array indices (findex.py, _parse_index, _append_value)                  *)

Last(s) == s[Len(s)]
Front(s) == SubSeq(s, 1, Len(s) - 1)
Reverse(s) == [i \in 1..Len(s) |-> s[Len(s) + 1 - i]]

\* FIndex.__init__; bounds are triplets of NoneV or IntV
NewFIndex(bounds, first) ==
    LET start == [i \in 1..Len(bounds) |->
                    IF IsNone(bounds[i][1]) THEN 1 ELSE bounds[i][1].v]
    IN  [t |-> "findex", start |-> start,
         end |-> [i \in 1..Len(bounds) |-> bounds[i][2]],
         step |-> [i \in 1..Len(bounds) |->
                    IF IsNone(bounds[i][3]) THEN 1 ELSE bounds[i][3].v],
         current |-> start,
         first |-> IF ~IsNone(first)
                   THEN [i \in 1..Len(bounds) |-> IntV(Min2(first.v, start[i]))]
                   ELSE [i \in 1..Len(bounds) |-> bounds[i][1]]]

RECURSIVE FIndexStep(_, _)
\* The loop over ranks of FIndex.__next__
FIndexStep(f, rank) ==
    IF rank > Len(f.current) THEN f
    ELSE IF \/ IsNone(f.end[rank])
            \/ f.current[rank] < f.end[rank].v - 1
            \/ rank = Len(f.current)
    THEN [f EXCEPT !.current[rank] = @ + f.step[rank]]
    ELSE FIndexStep([f EXCEPT !.current[rank] = f.start[rank]], rank + 1)

\* FIndex.__next__ raises StopIteration
FIndexStop(f) ==
    /\ PyTruthy(Last(f.end))
    /\ Last(f.current) >= Last(f.end).v

\* Variant that advances the last axis on every call
FIndexNextOuter(f) == FIndexStep(f, Len(f.current))

\* FIndex.__next__: the iterator after the call; the state returned is
\* f.current before it
FIndexNext(f) == FIndexStep(f, 1)

\* The message of a ValueError of _parse_index, which begins with v_name
IndexSyntax(v_name, text) == "ValueError: " \o v_name \o text

\* The message of the ValueError int(token) raises
IntLiteral(token) ==
    "ValueError: invalid literal for int() with base 10: '" \o token \o "'"

\* A parser state with the index read: the result of the index parsers
WithIndex(M, i) == [M |-> M, i |-> i]

\* _parse_index, start index, M after the first _update_tokens
IdxStartAt(M, v_name) ==
    IF M.exc # "" THEN WithIndex(M, NoneV)
    ELSE IF IsIntStr(M.token)
    THEN WithIndex(Advance(M), IntV(StrToInt(M.token)))
    ELSE IF M.token \in {",", ")"}
    THEN WithIndex(Raise(M, IndexSyntax(v_name, " index cannot be empty.")), NoneV)
    ELSE IF M.token # ":"
    THEN WithIndex(Raise(M, IntLiteral(M.token)), NoneV)
    ELSE WithIndex(M, NoneV)

\* _parse_index, start index: [M, i]
IdxStart(M0, v_name) == IdxStartAt(Advance(M0), v_name)

\* _parse_index, end index, M1 after the _update_tokens behind ':'
IdxEndAt(M1, v_name) ==
    IF M1.exc # "" THEN WithIndex(M1, NoneV)
    ELSE IF IsIntStr(M1.token)
    THEN WithIndex(Advance(M1), IntV(1 + StrToInt(M1.token)))
    ELSE IF M1.token = ":"
    THEN WithIndex(Raise(M1, IndexSyntax(v_name,
                       " end index cannot be implicit when using stride.")), NoneV)
    ELSE IF M1.token \notin {",", ")"}
    THEN WithIndex(Raise(M1, IntLiteral(M1.token)), NoneV)
    ELSE WithIndex(M1, NoneV)

\* _parse_index, end index: [M, i]
IdxEnd(M, i_start, v_name) ==
    IF M.token = ":" THEN IdxEndAt(Advance(M), v_name)
    ELSE IF M.token \in {",", ")"} /\ ~IsNone(i_start)
    THEN WithIndex(M, IntV(1 + i_start.v))
    ELSE WithIndex(M, NoneV)

\* _parse_index, stride, M1 after the _update_tokens behind ':'
IdxStrideAt(M1, v_name) ==
    IF M1.exc # "" THEN WithIndex(M1, NoneV)
    ELSE IF ~IsIntStr(M1.token)
    THEN WithIndex(Raise(M1, IF M1.token = ")"
                             THEN IndexSyntax(v_name, " stride index cannot be implicit.")
                             ELSE IntLiteral(M1.token)),
                   NoneV)
    ELSE IF StrToInt(M1.token) = 0
    THEN WithIndex(Raise(M1, IndexSyntax(v_name, " stride index cannot be zero.")), NoneV)
    ELSE WithIndex(Advance(M1), IntV(StrToInt(M1.token)))

\* _parse_index, stride: [M, i]
IdxStride(M, v_name) ==
    IF M.token = ":" THEN IdxStrideAt(Advance(M), v_name) ELSE WithIndex(M, NoneV)

\* A parser state with the triplet read: the result of _parse_index
WithTriplet(M, idx_triplet) == [M |-> M, idx_triplet |-> idx_triplet]

\* The element ends at any token
IndexCloseAny(i_start, i_end, c, v_name) == WithTriplet(c.M, <<i_start, i_end, c.i>>)

\* _parse_index, the terminating token, c the stride read
IndexClose(i_start, i_end, c, v_name) ==
    IF c.M.exc # "" THEN WithTriplet(c.M, <<>>)
    ELSE IF c.M.token \notin {",", ")"}
    THEN WithTriplet(Raise(c.M, IndexSyntax(v_name,
                         " index did not terminate correctly.")), <<>>)
    ELSE WithTriplet(c.M, <<i_start, i_end, c.i>>)

\* _parse_index after the end index b
IndexStride(i_start, b, v_name) ==
    IF b.M.exc # "" THEN WithTriplet(b.M, <<>>)
    ELSE IndexClose(i_start, b.i, IdxStride(b.M, v_name), v_name)

\* _parse_index after the start index a
IndexEnd(a, v_name) ==
    IF a.M.exc # "" THEN WithTriplet(a.M, <<>>)
    ELSE IndexStride(a.i, IdxEnd(a.M, a.i, v_name), v_name)

\* Parser._parse_index: [M, idx_triplet]
ParseIndex(M0, v_name) == IndexEnd(IdxStart(M0, v_name), v_name)

RECURSIVE ParseIndicesOf(_, _, _)

\* _parse_indices, r one index read
IndicesNext(v_indices, r, v_name) ==
    IF r.M.exc # "" THEN [M |-> r.M, v_indices |-> v_indices]
    ELSE ParseIndicesOf(r.M, v_name, Append(v_indices, r.idx_triplet))

\* _parse_indices, the loop over the index elements
ParseIndicesOf(M, v_name, v_indices) ==
    IF M.token \notin {",", "("} THEN [M |-> M, v_indices |-> v_indices]
    ELSE IndicesNext(v_indices, ParseIndex(M, v_name), v_name)

\* Parser._parse_indices: [M, v_indices]; v_name is the prior token
ParseIndices(M, v_indices) == ParseIndicesOf(M, M.prior_token, v_indices)

RECURSIVE pad_array(_, _)
\* pad_array(v, idx), idx a list of offsets i_v - i_s
pad_array(v, idx) ==
    LET n == idx[1] + 1 - Len(v.v)
    IN  IF Len(idx) > 1
        THEN LET ext == v.v \o [i \in 1..(IF n > 0 THEN n ELSE 0) |-> ListV(<<>>)]
             IN  ListV([i \in 1..Len(ext) |-> pad_array(ext[i], Tail(idx))])
        ELSE ListV(v.v \o NoneList(n))

RECURSIVE SetAt(_, _, _)
\* _append_value: descend through the outer offsets, extending on
\* IndexError, and assign at the last one: [v, exc]
SetAt(v, offs, next_value) ==
    LET k == offs[1]
        fill == IF Len(offs) > 1 THEN ListV(<<>>) ELSE NoneV
        ext == IF k >= Len(v.v)
               THEN v.v \o [i \in 1..(k + 1 - Len(v.v)) |-> fill]
               ELSE v.v
        pos == IF k >= 0 THEN k + 1 ELSE Len(ext) + k + 1
    IN  IF ~IsList(v) THEN [v |-> v, exc |-> "TypeError"]
        ELSE IF pos < 1 THEN [v |-> v, exc |-> "IndexError"]
        ELSE IF Len(offs) = 1
        THEN [v |-> ListV([ext EXCEPT ![pos] = next_value]), exc |-> ""]
        ELSE LET r == SetAt(ext[pos], Tail(offs), next_value)
             IN  [v |-> ListV([ext EXCEPT ![pos] = r.v]), exc |-> r.exc]

\* The result of _append_value
Appended(M, v_values, v_idx) == [M |-> M, v_values |-> v_values, v_idx |-> v_idx]

\* Every rank counted from default_start_index
IndexOffsetsDefault(M, v_idx) ==
    [i \in 1..Len(v_idx.current) |-> v_idx.current[i] - M.default_start_index]

\* _append_value: v_i - i_s for every rank of the current index
IndexOffsets(M, v_idx) ==
    [i \in 1..Len(v_idx.current) |->
        v_idx.current[i] - (IF IsNone(v_idx.first[i])
                            THEN M.default_start_index
                            ELSE v_idx.first[i].v)]

\* _append_value: the offsets in the order of descent, v_idx[::-1] unless
\* row_major
Offsets(M, v_idx) ==
    IF M.row_major THEN IndexOffsets(M, v_idx)
    ELSE Reverse(IndexOffsets(M, v_idx))

RECURSIVE AppendValue(_, _, _, _, _)

\* _append_value after the assignment r at one index
AppendSet(M, v_values, next_value, v_idx, n_vals, r) ==
    IF r.exc # "" THEN Appended(Raise(M, r.exc), v_values, v_idx)
    ELSE AppendValue(M, r.v, next_value, FIndexNext(v_idx), n_vals - 1)

\* An offset i_v - i_s of the placement is negative
BelowFirst(offs) == \E i \in 1..Len(offs) : offs[i] < 0

\* _append_value at the offsets offs: pad unless sparse, then assign
AppendAt(M, v_values, next_value, v_idx, n_vals, offs) ==
    AppendSet([M EXCEPT !.below_first = @ \/ BelowFirst(offs)],
              v_values, next_value, v_idx, n_vals,
              SetAt(IF M.sparse_arrays THEN v_values
                    ELSE pad_array(v_values, offs),
                    offs, next_value))

\* Parser._append_value: [M, v_values, v_idx]
AppendValue(M, v_values, next_value, v_idx, n_vals) ==
    IF n_vals <= 0 THEN Appended(M, v_values, v_idx)
    ELSE IF IsNone(v_idx)
    THEN AppendValue(M, ListV(Append(v_values.v, next_value)), next_value,
                     v_idx, n_vals - 1)
    ELSE IF FIndexStop(v_idx)
    THEN Appended([M EXCEPT !.warned = @ \/ ~IsNone(next_value)],
                  v_values, v_idx)
    ELSE AppendAt(M, v_values, next_value, v_idx, n_vals, Offsets(M, v_idx))

----------------------------------------------------------------------------
(* Support functions of the parser                                         *)

\* The first exception of a sequence of [v, exc] results
FirstExc(rs) ==
    LET bad == {i \in DOMAIN rs : rs[i].exc # ""}
    IN  IF bad = {} THEN ""
        ELSE rs[CHOOSE i \in bad : \A j \in bad : i <= j].exc

RECURSIVE prepad_array(_, _, _)
\* prepad_array: [v, exc]
prepad_array(var, v_start_idx, new_start_idx) ==
    IF ~IsList(var) THEN [v |-> var, exc |-> "TypeError"]
    ELSE IF v_start_idx = <<>> \/ new_start_idx = <<>>
    THEN [v |-> var, exc |-> "IndexError"]
    ELSE LET i_p == Last(v_start_idx)
             i_v == Last(new_start_idx)
             pad == IF ~IsNone(i_p) /\ ~IsNone(i_v) /\ i_v.v < i_p.v
                    THEN NoneList(i_p.v - i_v.v)
                    ELSE <<>>
             inner == [i \in 1..Len(var.v) |->
                        IF IsList(var.v[i])
                        THEN prepad_array(var.v[i], Front(v_start_idx),
                                          Front(new_start_idx))
                        ELSE [v |-> var.v[i], exc |-> ""]]
         IN  [v |-> ListV(pad \o [i \in 1..Len(var.v) |-> inner[i].v]),
              exc |-> FirstExc(inner)]

RECURSIVE merge_values(_, _)
RECURSIVE merge_lists(_, _)
RECURSIVE merge_dicts(_, _)
RECURSIVE MergeKeys(_, _, _)

\* The new element stands in every case
PickNew(s, w) == w

\* merge_lists, lines 934-937: a new element that is not None replaces the
\* old one
PickValue(s, w) == IF ~IsNone(w) THEN w ELSE s

\* merge_values
merge_values(src_v, new_v) ==
    IF IsDict(src_v) /\ IsDict(new_v) THEN merge_dicts(src_v, new_v)
    ELSE merge_lists(IF IsList(src_v) THEN src_v ELSE ListV(<<src_v>>),
                     IF IsList(new_v) THEN new_v ELSE ListV(<<new_v>>))

\* merge_lists
merge_lists(src_l, new_l) ==
    LET n == IF Len(src_l.v) < Len(new_l.v) THEN Len(new_l.v) ELSE Len(src_l.v)
        s == src_l.v \o NoneList(n - Len(src_l.v))
        w == new_l.v \o NoneList(n - Len(new_l.v))
    IN  ListV([i \in 1..n |->
            IF IsDict(w[i]) /\ IsDict(s[i]) THEN merge_dicts(s[i], w[i])
            ELSE IF IsList(w[i]) /\ IsList(s[i]) THEN merge_lists(s[i], w[i])
            ELSE PickValue(s[i], w[i])])

\* merge_dicts: the loop over the keys of patch
MergeKeys(src_d, patch, keys) ==
    IF keys = <<>> THEN src_d
    ELSE LET key == Head(keys)
             pv == DictGet(patch, key)
             sv == DictGet(src_d, key)
             merged_d ==
                 IF NmlContains(src_d, CogroupBasename(key))
                 THEN IF IsDict(sv) /\ IsDict(pv)
                      THEN DictSet(src_d, key, merge_dicts(sv, pv))
                      ELSE NmlSetKey(src_d, key, merge_values(sv, pv))
                 ELSE NmlSetKey(src_d, key, pv)
         IN  MergeKeys(merged_d, patch, Tail(keys))

\* merge_dicts
merge_dicts(src_d, patch) == MergeKeys(src_d, patch, patch.keys)

\* delist
delist(values) ==
    IF values.v = <<>> THEN NoneV
    ELSE IF Len(values.v) = 1 THEN values.v[1]
    ELSE values

\* Python list indexing: the 1-based position of l[i], 0 for IndexError
PyPos(l, i) ==
    IF i >= 0 THEN (IF i < Len(l) THEN i + 1 ELSE 0)
    ELSE (IF -i <= Len(l) THEN Len(l) + i + 1 ELSE 0)

----------------------------------------------------------------------------
(* Parser._parse_variable                                                  *)

Terminators == {"/", "&", "$"}

\* The state after the head of _parse_variable: the parser, the parent
\* namelist, the index iterator and the index of the derived type
VarHead(M, parent, v_idx, dt_idx) ==
    [M |-> M, parent |-> parent, v_idx |-> v_idx, dt_idx |-> dt_idx]

\* Lines 469-476: the smaller of the recorded and the new start index of
\* every rank that zip(p_idx, v_idx.first) pairs
MinFirst(p_idx, v_first) ==
    [i \in 1..Len(v_first) |->
        IF i > Len(p_idx) THEN v_first[i]
        ELSE IF IsNone(p_idx[i]) THEN v_first[i]
        ELSE IF IsNone(v_first[i]) THEN p_idx[i]
        ELSE IntV(Min2(p_idx[i].v, v_first[i].v))]

\* Lines 495-497: the derived type parent check, b the first index triplet
HeadDerived(M2, b, parent, v_idx) ==
    IF IsNone(b[1]) \/ IsNone(b[2])
    THEN VarHead(Raise(M2, "TypeError"), parent, NoneV, NoneV)
    ELSE IF b[2].v - b[1].v # 1
    THEN VarHead(Raise(M2, "AssertionError"), parent, NoneV, NoneV)
    ELSE VarHead(M2, parent, v_idx, IntV(b[1].v - v_idx.first[1].v))

\* Lines 490-497, M2 the parser after _update_tokens
HeadToken(M2, b, parent, v_idx) ==
    IF M2.exc # "" THEN VarHead(M2, parent, NoneV, NoneV)
    ELSE IF M2.token = "%" THEN HeadDerived(M2, b, parent, v_idx)
    ELSE VarHead(M2, parent, v_idx, NoneV)

\* Lines 488-490: the start index is recorded and the next token read
HeadStart(r, parent, lname, v_idx0, first) ==
    HeadToken(Advance(r.M), r.v_indices[1],
              [parent EXCEPT !.start_index = MapSet(@, lname, first)],
              [v_idx0 EXCEPT !.first = first])

\* Lines 479-480: the stored list is replaced by the padded one pp
HeadPadded(r, parent, v_name, v_idx0, first, pp) ==
    IF pp.exc # "" THEN VarHead(Raise(r.M, pp.exc), parent, NoneV, NoneV)
    ELSE HeadStart(r, NmlSetItem(parent, v_name, pp.v), Lower(v_name),
                   v_idx0, first)

\* Lines 466-480: the variable has a recorded start index
HeadKnown(r, parent, v_name, v_idx0, first) ==
    IF NmlMissing(parent, v_name)
    THEN VarHead(Raise(r.M, "KeyError"), parent, NoneV, NoneV)
    ELSE HeadPadded(r, parent, v_name, v_idx0, first,
                    prepad_array(NmlGetItem(parent, v_name),
                                 parent.start_index[Lower(v_name)], first))

\* Lines 463-488, v_idx0 the FIndex of the bounds read
HeadFIndex(r, parent, v_name, v_idx0) ==
    IF Lower(v_name) \in DOMAIN parent.start_index
    THEN HeadKnown(r, parent, v_name, v_idx0,
                   MinFirst(parent.start_index[Lower(v_name)], v_idx0.first))
    ELSE IF NmlContains(parent, v_name)
    THEN HeadStart(r, parent, Lower(v_name), v_idx0,
                   [i \in 1..Len(v_idx0.first) |-> IntV(r.M.default_start_index)])
    ELSE HeadStart(r, parent, Lower(v_name), v_idx0, v_idx0.first)

\* Lines 461-463, r the bounds read by _parse_indices
HeadIndices(r, parent, v_name) ==
    IF r.M.exc # "" THEN VarHead(r.M, parent, NoneV, NoneV)
    ELSE HeadFIndex(r, parent, v_name,
                    NewFIndex(r.v_indices, r.M.global_start_index))

\* Lines 461-503: an indexed variable: [M, parent, v_idx, dt_idx]
IndexedHead(M0, parent, v_name) ==
    HeadIndices(ParseIndices(M0, <<>>), parent, v_name)

RECURSIVE PadDims(_, _, _, _)
\* Lines 515-518: one pad of the stored list per dimension that starts
\* after the default start index: [parent, exc]
PadDims(parent, v_name, p_start, dsi) ==
    IF p_start = <<>> THEN [parent |-> parent, exc |-> ""]
    ELSE IF IsNone(Head(p_start)) THEN [parent |-> parent, exc |-> "TypeError"]
    ELSE IF dsi >= Head(p_start).v THEN PadDims(parent, v_name, Tail(p_start), dsi)
    ELSE IF NmlMissing(parent, v_name) THEN [parent |-> parent, exc |-> "KeyError"]
    ELSE IF ~IsList(NmlGetItem(parent, v_name))
    THEN [parent |-> parent, exc |-> "TypeError"]
    ELSE PadDims(NmlSetItem(parent, v_name,
                    ListV(NoneList(Head(p_start).v - dsi)
                          \o NmlGetItem(parent, v_name).v)),
                 v_name, Tail(p_start), dsi)

\* Line 520: the start index becomes the default one, pd the padded parent
PlainPadded(M0, lname, v_start, pd) ==
    IF pd.exc # "" THEN VarHead(Raise(M0, pd.exc), pd.parent, NoneV, NoneV)
    ELSE VarHead(M0, [pd.parent EXCEPT !.start_index = MapSet(@, lname, v_start)],
                 NoneV, NoneV)

\* Lines 504-520: a variable without index: [M, parent, v_idx, dt_idx].
\* The test of line 510 is on the name as written, the lookups on the
\* lower-case name
PlainHead(M0, parent, v_name) ==
    IF v_name \notin DOMAIN parent.start_index
    THEN VarHead(M0, parent, NoneV, NoneV)
    ELSE IF Lower(v_name) \notin DOMAIN parent.start_index
    THEN VarHead(Raise(M0, "KeyError"), parent, NoneV, NoneV)
    ELSE PlainPadded(M0, Lower(v_name),
             [i \in 1..Len(parent.start_index[Lower(v_name)]) |->
                 IntV(M0.default_start_index)],
             PadDims(parent, v_name, parent.start_index[Lower(v_name)],
                     M0.default_start_index))

\* Variant that records a null for a terminator after a comma as well
ImplicitNullAll(prior_token, token) == token \in ({","} \cup Terminators)

\* Lines 596-598: after "=", "%" or ",", the tokens that record a null
ImplicitNull(prior_token, token) ==
    /\ token \in ({","} \cup Terminators)
    /\ ~(prior_token = "," /\ token \in Terminators)

\* The state L of the loop over the values of one assignment after a turn:
\* L = [M, v_values, v_idx, n_vals, has_patch, patch_values, p_idx];
\* n_vals 0 is None
LoopState(L, s, M, p_idx) ==
    [L EXCEPT !.M = M, !.v_values = s.v_values, !.v_idx = s.v_idx,
              !.n_vals = 1, !.p_idx = p_idx]

\* The loop ends with an exception in parser state M
LoopFail(L, M) == [L EXCEPT !.M = M, !.n_vals = 1]

\* self._update_tokens(write_token=False)
Skip(M) == UpdateTokens(M, FALSE, "", FALSE)

\* Lines 644-650, Mo the parser after the patch value was written: the four
\* tokens of a complex number are skipped
Overridden(p_val, Mo) ==
    IF p_val.t = "complex" THEN Skip(Skip(Skip(Skip(Mo)))) ELSE Mo

RECURSIVE ValueLoop(_)

\* Lines 639-650: the value read is replaced by the patch value p_val
LoopOverride(L, s, p_val) ==
    IF f90reprFails(p_val) THEN LoopState(L, s, Raise(s.M, "ValueError"), L.p_idx)
    ELSE ValueLoop(LoopState(L, s,
             Overridden(p_val, UpdateTokens(s.M, TRUE,
                                            f90repr(DefaultFormat, p_val), FALSE)),
             L.p_idx + 1))

\* Lines 616-656: the end of one turn, s the values after _append_value
LoopPatch(L, s) ==
    IF s.M.exc # "" \/ s.M.token \in (Terminators \cup {"="})
    THEN LoopState(L, s, s.M, L.p_idx)
    ELSE IF ~(L.has_patch /\ L.patch_values # <<>>)
    THEN ValueLoop(LoopState(L, s, Advance(s.M), L.p_idx))
    ELSE IF /\ L.p_idx < Len(L.patch_values)
            /\ check_for_value(<<s.M.token>> \o s.M.tokens, 0)
            /\ s.M.token # ","
    THEN LoopOverride(L, s, L.patch_values[L.p_idx + 1])
    ELSE ValueLoop(LoopState(L, s,
             UpdateTokens(s.M, TRUE, "", L.p_idx >= Len(L.patch_values)),
             L.p_idx))

\* Variant that joins a string to the string read before it
LoopAppendJoined(L, pv, n_vals) ==
    IF pv.M.exc # "" THEN LoopFail(L, pv.M)
    ELSE IF /\ pv.value.t = "str"
            /\ L.v_values.v # <<>>
            /\ Last(L.v_values.v).t = "str"
    THEN LoopPatch(L, Appended(pv.M,
                      ListV(Front(L.v_values.v)
                            \o <<StrV(Last(L.v_values.v).v \o pv.value.v)>>),
                      L.v_idx))
    ELSE LoopPatch(L, AppendValue(pv.M, L.v_values, pv.value, L.v_idx, n_vals))

\* Lines 608-613: the value pv read by _parse_value is appended
LoopAppend(L, pv, n_vals) ==
    IF pv.M.exc # "" THEN LoopFail(L, pv.M)
    ELSE LoopPatch(L, AppendValue(pv.M, L.v_values, pv.value, L.v_idx, n_vals))

\* Lines 600-613: the value after a repeat factor, M2 the parser after the
\* _update_tokens of line 602
LoopRepeated(L, M2, n_vals) ==
    IF M2.exc # "" THEN LoopFail(L, M2)
    ELSE IF \/ M2.prior_token = ","
            \/ M2.token = "="
            \/ (M2.token \in Terminators /\ M2.prior_token = "*")
    THEN LoopPatch(L, AppendValue(M2, L.v_values, NoneV, L.v_idx,
                                  IF M2.prior_token = "," /\ M2.token = ","
                                  THEN n_vals + 1 ELSE n_vals))
    ELSE LoopAppend(L, ParseValue(M2), n_vals)

\* Lines 594-613: one value with its repeat factor n_vals
LoopValue(L, M1, n_vals) ==
    IF M1.exc # "" THEN LoopFail(L, M1)
    ELSE IF M1.prior_token \in {"=", "%", ","}
    THEN IF ImplicitNull(M1.prior_token, M1.token)
         THEN LoopPatch(L, AppendValue(M1, L.v_values, NoneV, L.v_idx, n_vals))
         ELSE LoopPatch(L, Appended(M1, L.v_values, L.v_idx))
    ELSE IF M1.prior_token = "*"
    THEN LoopRepeated(L, IF M1.token \notin Terminators THEN Advance(M1) ELSE M1,
                      n_vals)
    ELSE LoopAppend(L, ParseValue(M1), n_vals)

\* Variant that reads the repeat factor and counts the value once
LoopRepeatOnce(L, rep) ==
    IF rep.M.exc # "" THEN LoopFail(L, rep.M)
    ELSE LoopValue(L, Advance(rep.M), 1)

\* Lines 587-590: the repeat factor rep read by _parse_value
LoopRepeat(L, rep) ==
    IF rep.M.exc # "" THEN LoopFail(L, rep.M)
    ELSE IF rep.value.t \notin {"int", "bool"}
    THEN LoopFail(L, Raise(rep.M, "AssertionError"))
    ELSE LoopValue(L, Advance(rep.M),
                   IF rep.value.t = "int" THEN rep.value.v
                   ELSE IF rep.value.v THEN 1 ELSE 0)

\* Lines 583-656: the loop over the values of one assignment
ValueLoop(L) ==
    IF L.M.exc # "" THEN L
    ELSE IF ~(\/ L.M.token \notin {"=", "(", "%"}
              \/ <<L.M.prior_token, L.M.token>> \in {<<"=", "(">>, <<",", "(">>})
    THEN L
    ELSE IF L.M.token = "*" THEN LoopRepeat(L, ParseValue(L.M))
    ELSE LoopValue(L, L.M, IF L.n_vals = 0 THEN 1 ELSE L.n_vals)

\* Lines 449-450: the patch in use
PatchOf(patch_in) == IF PyTruthy(patch_in) THEN patch_in ELSE EmptyNml

\* v_name in patch_nml
HasPatch(patch_in, v_name) ==
    IsDict(PatchOf(patch_in)) /\ NmlContains(PatchOf(patch_in), v_name)

\* The result of _parse_variable: [M, parent, patch_nml, v_name, v_values];
\* parent and patch_nml are the caller's objects after the call
VarResult(M, parent, patch_in, patch, v_name, v_values) ==
    [M |-> M, parent |-> parent,
     patch_nml |-> IF PyTruthy(patch_in) THEN patch ELSE patch_in,
     v_name |-> v_name, v_values |-> v_values]

\* _parse_variable ends with an exception in parser state M
VarFail(M, parent0, patch_in, v_name) ==
    VarResult(M, parent0, patch_in, patch_in, v_name, NoneV)

\* Lines 669-671
FinalValues(v_idx, v_values) ==
    IF IsNone(v_idx) THEN delist(v_values) ELSE v_values

\* Lines 534-535
DtIndex(h) == IF IsNone(h.dt_idx) THEN h.M.default_start_index ELSE h.dt_idx.v

\* The position of vpar[dt_idx], 0 for IndexError
DtPos(h, vpar) == IF IsList(vpar) THEN PyPos(vpar.v, DtIndex(h)) ELSE 0

\* Lines 530-549: where the namelist of the derived type comes from
DtWhere(h, vpar) ==
    IF ~Truthy(h.parent) THEN "new"
    ELSE IF PyTruthy(vpar) /\ IsList(vpar)
    THEN (IF DtPos(h, vpar) = 0 THEN "detached" ELSE "element")
    ELSE IF PyTruthy(vpar) THEN "alias"
    ELSE "detached"

\* Lines 530-549: v_parent
DtParent(h, vpar) ==
    CASE DtWhere(h, vpar) = "element" -> vpar.v[DtPos(h, vpar)]
      [] DtWhere(h, vpar) = "alias" -> vpar
      [] OTHER -> EmptyNml

\* The parent after the call on v_parent, an object parent may hold
DtStore(h, v_name, vpar, v_parent) ==
    CASE DtWhere(h, vpar) = "new" -> NmlSetItem(h.parent, v_name, v_parent)
      [] DtWhere(h, vpar) = "element" ->
            DictSet(h.parent, Lower(v_name),
                    ListV([vpar.v EXCEPT ![DtPos(h, vpar)] = v_parent]))
      [] DtWhere(h, vpar) = "alias" -> DictSet(h.parent, Lower(v_name), v_parent)
      [] OTHER -> h.parent

\* The patch after the call on v_patch_nml, an object patch_nml holds
DtPatch(patch_in, v_name, v_patch_nml) ==
    IF HasPatch(patch_in, v_name) /\ DictHas(PatchOf(patch_in), Lower(v_name))
    THEN DictSet(PatchOf(patch_in), Lower(v_name), v_patch_nml)
    ELSE PatchOf(patch_in)

\* Line 561 done: a the result of _append_value
DerivedAppended(v_name, parent0, patch_in, h, vpar, rec, a) ==
    IF a.M.exc # "" THEN VarFail(a.M, parent0, patch_in, v_name)
    ELSE VarResult(a.M, DtStore(h, v_name, vpar, rec.parent), patch_in,
                   DtPatch(patch_in, v_name, rec.patch_nml), v_name,
                   FinalValues(h.v_idx, a.v_values))

\* Lines 559-561: rec the result of the call for the attribute
DerivedRec(v_name, parent0, patch_in, h, vpar, rec) ==
    IF rec.M.exc # "" THEN VarFail(rec.M, parent0, patch_in, v_name)
    ELSE DerivedAppended(v_name, parent0, patch_in, h, vpar, rec,
             AppendValue(rec.M, ListV(<<>>),
                         NmlSetItem(EmptyNml, rec.v_name, rec.v_values),
                         h.v_idx, 1))

RECURSIVE ParseVariable(_, _, _)

\* Lines 522-557: the derived type, vpar the value parent holds for v_name
DerivedType(v_name, parent0, patch_in, h, vpar) ==
    DerivedRec(v_name, parent0, patch_in, h, vpar,
        ParseVariable(Advance(Advance(h.M)), DtParent(h, vpar),
                      IF HasPatch(patch_in, v_name)
                      THEN NmlGet(PatchOf(patch_in), Lower(v_name))
                      ELSE NoneV))

\* Lines 667-672: L the loop over the values when it has ended
VarValues(v_name, parent0, patch_in, h, L) ==
    IF L.M.exc # "" THEN VarFail(L.M, parent0, patch_in, v_name)
    ELSE VarResult(L.M, h.parent, patch_in,
                   IF HasPatch(patch_in, v_name)
                   THEN DictDel(PatchOf(patch_in), Lower(v_name))
                   ELSE PatchOf(patch_in),
                   v_name,
                   FinalValues(h.v_idx,
                               IF L.patch_values # <<>> THEN ListV(L.patch_values)
                               ELSE L.v_values))

\* Lines 574-580: patch_values
PatchValues(patch_in, v_name) ==
    IF ~HasPatch(patch_in, v_name) THEN <<>>
    ELSE IF IsList(DictGet(PatchOf(patch_in), Lower(v_name)))
    THEN DictGet(PatchOf(patch_in), Lower(v_name)).v
    ELSE <<DictGet(PatchOf(patch_in), Lower(v_name))>>

\* Lines 522-665, h the head of the variable
VarBody(v_name, parent0, patch_in, h) ==
    IF h.M.exc # "" THEN VarFail(h.M, parent0, patch_in, v_name)
    ELSE IF ~IsDict(PatchOf(patch_in)) /\ PatchOf(patch_in).t # "list"
    THEN VarFail(Raise(h.M, IF PatchOf(patch_in).t = "str" THEN "Unmodelled"
                            ELSE "TypeError"),
                 parent0, patch_in, v_name)
    ELSE IF h.M.token = "%"
    THEN DerivedType(v_name, parent0, patch_in, h, NmlGet(h.parent, Lower(v_name)))
    ELSE IF h.M.token # "="
    THEN VarFail(Raise(h.M, "AssertionError"), parent0, patch_in, v_name)
    ELSE IF HasPatch(patch_in, v_name)
            /\ ~DictHas(PatchOf(patch_in), Lower(v_name))
    THEN VarFail(Raise(h.M, "KeyError"), parent0, patch_in, v_name)
    ELSE VarValues(v_name, parent0, patch_in, h,
             ValueLoop([M |-> Advance(h.M), v_values |-> ListV(<<>>),
                        v_idx |-> h.v_idx, n_vals |-> 0,
                        has_patch |-> HasPatch(patch_in, v_name),
                        patch_values |-> PatchValues(patch_in, v_name),
                        p_idx |-> 0]))

\* Parser._parse_variable
ParseVariable(M0, parent0, patch_in) ==
    IF M0.exc # "" THEN VarFail(M0, parent0, patch_in, M0.prior_token)
    ELSE IF ~IsDict(parent0)
    THEN VarFail(Raise(M0, "AttributeError"), parent0, patch_in, M0.prior_token)
    ELSE IF M0.token = "("
    THEN VarBody(M0.prior_token, parent0, patch_in,
                 IndexedHead(M0, parent0, M0.prior_token))
    ELSE VarBody(M0.prior_token, parent0, patch_in,
                 PlainHead(M0, parent0, M0.prior_token))

----------------------------------------------------------------------------
(* The serializer (Namelist._var_strings, _write_nmlgrp, _writestream)     *)

\* is_nullable_list(val, vtype), vtype given by its tag
is_nullable_list(val, vtype) ==
    /\ IsList(val)
    /\ \E i \in 1..Len(val.v) : val.v[i].t = vtype
    /\ \A i \in 1..Len(val.v) : val.v[i].t = vtype \/ IsNone(val.v[i])

RECURSIVE JoinInts(_, _)
\* delim.join(str(i) for i in s)
JoinInts(s, delim) ==
    IF s = <<>> THEN ""
    ELSE IF Len(s) = 1 THEN IntToStr(s[1])
    ELSE IntToStr(s[1]) \o delim \o JoinInts(Tail(s), delim)

\* Lines 793-823: the index range of a vector; v_start <<>> is None
IdxRepr(fmt, n, v_idx, v_start, is_list) ==
    LET udsi == is_list /\ ~IsNone(fmt.default_start_index)
        i_s == IF v_start # <<>> THEN v_start[1] ELSE fmt.default_start_index
        i_e == i_s.v + n - 1
        range == IF v_start # <<>> \/ udsi
                 THEN IF IsNone(i_s) THEN ":"
                      ELSE IF i_s.v = i_e THEN IntToStr(i_s.v)
                      ELSE IntToStr(i_s.v) \o ":" \o IntToStr(i_e)
                 ELSE ":"
        idx_delim == IF fmt.index_spacing THEN ", " ELSE ","
    IN  IF v_idx # <<>> \/ v_start # <<>> \/ udsi
        THEN "(" \o range
             \o (IF v_idx # <<>>
                 THEN idx_delim \o JoinInts(Reverse(v_idx), idx_delim) ELSE "")
             \o ")"
        ELSE ""

RECURSIVE ValueLines(_, _, _, _, _, _)

\* Lines 877-885: the line with the value added is closed when it is full
LineNext(fmt, v_header, v_values, i_val, val_strs, line, column_width) ==
    IF Len(line) >= column_width
    THEN ValueLines(fmt, v_header, v_values, i_val + 1,
                    Append(val_strs, RStrip(line)), Spaces(Len(v_header)))
    ELSE ValueLines(fmt, v_header, v_values, i_val + 1, val_strs, line)

\* Lines 836-889: the values of one variable laid out in lines:
\* [val_strs, val_line]
ValueLines(fmt, v_header, v_values, i_val, val_strs, val_line) ==
    IF i_val > Len(v_values)
    THEN [val_strs |-> val_strs, val_line |-> val_line]
    ELSE LineNext(fmt, v_header, v_values, i_val, val_strs,
             IF Len(val_line) < (IF Len(v_header) >= fmt.column_width
                                 THEN Len(v_header) + 1 ELSE fmt.column_width)
             THEN val_line \o f90repr(fmt, v_values[i_val])
                  \o (IF i_val < Len(v_values) \/ fmt.end_comma THEN ", " ELSE "")
             ELSE val_line,
             IF Len(v_header) >= fmt.column_width
             THEN Len(v_header) + 1 ELSE fmt.column_width)

\* Variant that writes no mark after a trailing null
ScalarCommaNone(vs, strs) == [strs |-> strs, exc |-> ""]

\* Lines 895-902: a trailing null is marked by a comma
ScalarComma(vs, strs) ==
    IF strs # <<>> /\ (vs = <<>> \/ IsNone(Last(vs)))
    THEN [strs |-> [strs EXCEPT ![Len(strs)] = @ \o " ,"], exc |-> ""]
    ELSE [strs |-> strs, exc |-> ""]

\* Lines 891-893: the last line is kept unless it is blank
ScalarEnd(vs, r) ==
    ScalarComma(vs, IF r.val_line # "" /\ ~IsSpace(r.val_line)
                    THEN Append(r.val_strs, RStrip(r.val_line))
                    ELSE r.val_strs)

\* Lines 836-902, vs the values and v_header the text up to the '='
ScalarLines(fmt, vs, v_header) ==
    IF \E i \in 1..Len(vs) : f90reprFails(vs[i])
    THEN [strs |-> <<>>, exc |-> "ValueError"]
    ELSE ScalarEnd(vs, ValueLines(fmt, v_header, vs, 1, <<>>, v_header))

\* Lines 783-784: a scalar is written as a list of one value
ScalarList(v_values) == IF IsList(v_values) THEN v_values.v ELSE <<v_values>>

\* Lines 782-902: a scalar or a list of scalars: [strs, exc]
ScalarStrings(fmt, v_name, v_values, v_idx, v_start) ==
    ScalarLines(fmt, ScalarList(v_values),
                fmt.indent \o v_name
                \o IdxRepr(fmt, Len(ScalarList(v_values)), v_idx, v_start,
                           IsList(v_values))
                \o " = ")

RECURSIVE ConcatStrs(_)
\* The lines of a sequence of [strs, exc] results, up to the first exception
ConcatStrs(rs) ==
    IF rs = <<>> THEN [strs |-> <<>>, exc |-> ""]
    ELSE IF Head(rs).exc # "" THEN Head(rs)
    ELSE LET rest == ConcatStrs(Tail(rs))
         IN  [strs |-> Head(rs).strs \o rest.strs, exc |-> rest.exc]

RECURSIVE VarStrings(_, _, _, _, _)
\* Namelist._var_strings: [strs, exc]; v_idx and v_start <<>> are
\* None or empty
VarStrings(fmt, v_name0, v_values, v_idx, v_start) ==
    LET v_name == IF fmt.uppercase THEN Upper(v_name0) ELSE v_name0
        rev == Reverse(v_start)
        i_s == IF v_start # <<>> THEN rev[Len(v_idx) + 1] ELSE NoneV
        base(default) == IF IsNone(i_s) THEN default ELSE i_s.v
    IN  IF is_nullable_list(v_values, "list")
        THEN IF v_start # <<>> /\ Len(v_idx) >= Len(v_start)
             THEN [strs |-> <<>>, exc |-> "IndexError"]
             ELSE ConcatStrs([i \in 1..Len(v_values.v) |->
                      VarStrings(fmt, v_name, v_values.v[i],
                                 Append(v_idx, base(1) + i - 1), v_start)])
        ELSE IF IsDict(v_values)
        THEN ConcatStrs([i \in 1..Len(v_values.keys) |->
                 LET f_name == CogroupBasename(v_values.keys[i])
                 IN  VarStrings(fmt, v_name \o "%" \o f_name, v_values.vals[i],
                                <<>>,
                                IF f_name \in DOMAIN v_values.start_index
                                THEN v_values.start_index[f_name] ELSE <<>>)])
        ELSE IF is_nullable_list(v_values, "nml")
        THEN IF v_start # <<>> /\ Len(v_idx) >= Len(v_start)
             THEN [strs |-> <<>>, exc |-> "IndexError"]
             ELSE IF v_start # <<>> /\ IsNone(i_s)
             THEN [strs |-> <<>>, exc |-> "TypeError"]
             ELSE ConcatStrs([i \in 1..Len(v_values.v) |->
                      IF IsNone(v_values.v[i]) THEN [strs |-> <<>>, exc |-> ""]
                      ELSE VarStrings(fmt,
                               v_name \o "(" \o IntToStr(base(1) + i - 1) \o ")",
                               v_values.v[i], <<>>, <<>>)])
        ELSE ScalarStrings(fmt, v_name, v_values, v_idx, v_start)

RECURSIVE JoinLines(_)
\* print(v_str, file=nml_file) for each string
JoinLines(strs) ==
    IF strs = <<>> THEN "" ELSE Head(strs) \o "\n" \o JoinLines(Tail(strs))

\* The text of a group from the lines of its variables
GrpText(name, body) ==
    [text |-> "&" \o name \o "\n" \o JoinLines(body.strs)
              \o (IF body.exc = "" THEN "/\n" ELSE ""),
     exc |-> body.exc]

\* The lines of all variables of a group
GrpStrings(fmt, grp_vars) ==
    ConcatStrs([i \in 1..Len(grp_vars.keys) |->
        VarStrings(fmt, CogroupBasename(grp_vars.keys[i]), grp_vars.vals[i], <<>>,
                   IF CogroupBasename(grp_vars.keys[i]) \in DOMAIN grp_vars.start_index
                   THEN grp_vars.start_index[CogroupBasename(grp_vars.keys[i])]
                   ELSE <<>>)])

\* Namelist._write_nmlgrp without the leading blank line: [text, exc]
WriteNmlGrp(fmt, grp_name, grp_vars) ==
    IF ~IsDict(grp_vars)
    THEN [text |-> "&" \o (IF fmt.uppercase THEN Upper(grp_name) ELSE grp_name)
                   \o "\n",
          exc |-> "AttributeError"]
    ELSE GrpText(IF fmt.uppercase THEN Upper(grp_name) ELSE grp_name,
                 GrpStrings(fmt, grp_vars))

\* The text of a group followed by the text of the groups after it
GroupsRest(lead, g, rest) ==
    [text |-> lead \o g.text \o rest.text, exc |-> rest.exc]

RECURSIVE WriteGroups(_, _, _, _)

\* _writestream after group i was written as g
GroupsNext(fmt, n, i, lead, g) ==
    IF g.exc # "" THEN [text |-> lead \o g.text, exc |-> g.exc]
    ELSE GroupsRest(lead, g, WriteGroups(fmt, n, i + 1, TRUE))

\* Namelist._writestream from group i on, newline the _newline flag:
\* [text, exc]
WriteGroups(fmt, n, i, newline) ==
    IF i > Len(n.keys) THEN [text |-> "", exc |-> ""]
    ELSE GroupsNext(fmt, n, i, IF newline THEN "\n" ELSE "",
                    WriteNmlGrp(fmt, CogroupBasename(n.keys[i]), n.vals[i]))

\* Namelist._writestream(nml_file) with sort False
WriteStream(fmt, n) == WriteGroups(fmt, n, 1, FALSE)

\* Namelist.__str__ of a Namelist whose values are all Namelists
NmlStr(fmt, n) == RStrip(WriteStream(fmt, n).text)

----------------------------------------------------------------------------
(* Parser._readstream, one operator per segment of the method.  The reader *)
(* state R has the parser M and the locals nmls, nml_patch, g_name,        *)
(* g_vars, grp_patch; pc names the segment to run next.                    *)

EofError == "ValueError: End-of-file reached before end of namelist"

\* The exception is dropped and the Namelist built so far is returned
ReturnedSoFar(R, M) == [R EXCEPT !.M = Raise(M, ""), !.pc = "done"]

\* read and reads turn a StopIteration that leaves _readstream into
\* ValueError
Raised(R, M) ==
    [R EXCEPT !.M = IF M.exc = "StopIteration" THEN Raise(M, EofError) ELSE M,
              !.pc = "raised"]

\* The reader state when _readstream starts on the tokens lx
StartState(lx, patch, pfile) ==
    [M |-> NewParser(lx.f90lex, pfile), nmls |-> EmptyNml,
     nml_patch |-> patch, g_name |-> "", g_vars |-> EmptyNml,
     grp_patch |-> EmptyNml, pc |-> "first"]

\* Lines 306-338, lx the result of the tokenizing loop
Tokenized(lx, patch, pfile) ==
    IF lx.exc # ""
    THEN Raised(StartState(lx, patch, pfile),
                Raise(NewParser(lx.f90lex, pfile), lx.exc))
    ELSE StartState(lx, patch, pfile)

\* Lines 306-338: tokenize the input and create the result
NewReader(text, patch, pfile) ==
    Tokenized(Lex(NewTokenizer, SplitLines(text, "")), patch, pfile)

\* Lines 340-344, M the parser after the first _update_tokens
FirstToken(R, M) ==
    IF M.exc = "StopIteration"
    THEN [R EXCEPT !.M = Raise(M, ""), !.pc = "done"]
    ELSE IF M.exc # "" THEN Raised(R, M)
    ELSE [R EXCEPT !.M = M, !.pc = "outside"]

\* Lines 340-344: the first token; an empty file returns at once
ReadFirst(R) == FirstToken(R, Skip(R.M))

RECURSIVE SkipOutside(_)
\* Lines 354-355: ignore tokens outside of namelist groups
SkipOutside(M) ==
    IF M.exc # "" \/ M.token \in {"&", "$"} THEN M
    ELSE SkipOutside(Advance(M))

\* OrderedDict.pop(key, default)
DictPop(n, k, default) == IF DictHas(n, k) THEN DictGet(n, k) ELSE default

\* Variant that leaves the patch of the group in nml_patch
GroupOpenedKeep(R, M2) ==
    IF M2.exc = "StopIteration"
    THEN Raised(R, Raise(M2, "ValueError: End-of-file after namelist group token"))
    ELSE IF M2.exc # "" THEN Raised(R, M2)
    ELSE [R EXCEPT !.M = M2, !.g_name = M2.token, !.g_vars = EmptyNml,
                   !.grp_patch = DictPop(R.nml_patch, Lower(M2.token), EmptyNml),
                   !.pc = "group"]

\* Lines 357-371, M2 the parser at the name of the group
GroupOpened(R, M2) ==
    IF M2.exc = "StopIteration"
    THEN Raised(R, Raise(M2, "ValueError: End-of-file after namelist group token"))
    ELSE IF M2.exc # "" THEN Raised(R, M2)
    ELSE [R EXCEPT !.M = M2, !.g_name = M2.token, !.g_vars = EmptyNml,
                   !.grp_patch = DictPop(R.nml_patch, Lower(M2.token), EmptyNml),
                   !.nml_patch = IF DictHas(@, Lower(M2.token))
                                 THEN DictDel(@, Lower(M2.token))
                                 ELSE @,
                   !.pc = "group"]

\* Lines 354-357, M1 the parser at the token that opens a group
GroupFound(R, M1) ==
    IF M1.exc = "StopIteration"
    THEN [R EXCEPT !.M = Raise(M1, ""), !.pc = "tail"]
    ELSE GroupOpened(R, Advance(M1))

\* Lines 348-371: find the next group and open it
OpenGroup(R) ==
    GroupFound(R, SkipOutside(IF R.M.token = "end" THEN Advance(R.M) ELSE R.M))

\* Variant that squeezes indexed variables too
SqueezableIndexed(gv, i) == IsList(gv.vals[i]) /\ Len(gv.vals[i].v) = 1

\* Lines 401-405: a list of one element of a variable without start index
Squeezable(gv, i) ==
    /\ IsList(gv.vals[i])
    /\ Len(gv.vals[i].v) = 1
    /\ CogroupBasename(gv.keys[i]) \notin DOMAIN gv.start_index

RECURSIVE Squeeze(_, _)
\* Lines 400-406: squeeze 1d lists of variables without start index
Squeeze(gv, i) ==
    IF i > Len(gv.keys) THEN gv
    ELSE Squeeze(IF Squeezable(gv, i)
                 THEN [gv EXCEPT !.vals[i] = gv.vals[i].v[1]]
                 ELSE gv,
                 i + 1)

\* Lines 389-398: the values read are merged into those the group holds
MergedValues(pv) ==
    IF NmlContains(pv.parent, pv.v_name)
    THEN merge_values(NmlGetItem(pv.parent, pv.v_name), pv.v_values)
    ELSE pv.v_values

\* Lines 386-410, pv the result of _parse_variable
VariableRead(R, pv) ==
    IF pv.M.exc # "" THEN Raised(R, pv.M)
    ELSE [R EXCEPT !.M = pv.M, !.grp_patch = pv.patch_nml,
                   !.g_vars = Squeeze(NmlSetItem(pv.parent, pv.v_name,
                                                 MergedValues(pv)), 1)]

\* Lines 386-410: parse one variable into g_vars
ReadVariable(R) == VariableRead(R, ParseVariable(R.M, R.g_vars, R.grp_patch))

RECURSIVE AppendPatched(_, _)

\* Lines 419-420: the lines vs of a patched variable are written
PatchedWritten(R, R1, i, vs) ==
    IF vs.exc # "" THEN Raised(R1, Raise(R.M, vs.exc))
    ELSE IF vs.strs # <<>> /\ ~R.M.pfile
    THEN Raised(R1, Raise(R.M, "AttributeError"))
    ELSE AppendPatched([R1 EXCEPT !.M.out = @ \o JoinLines(vs.strs)], i + 1)

\* Lines 416-420: append the remaining patched variables from position i
AppendPatched(R, i) ==
    IF i > Len(R.grp_patch.keys) THEN R
    ELSE PatchedWritten(R,
             [R EXCEPT !.g_vars = NmlSetKey(@, R.grp_patch.keys[i],
                                            R.grp_patch.vals[i])],
             i,
             VarStrings(DefaultFormat, CogroupBasename(R.grp_patch.keys[i]),
                        R.grp_patch.vals[i], <<>>, <<>>))

\* Lines 422-429: the group is stored, as a cogroup when its name is there
GroupStored(name, R1) ==
    IF R1.pc = "raised" THEN R1
    ELSE [R1 EXCEPT !.nmls = StoreGroup(@, name, R1.g_vars),
                    !.g_name = "", !.g_vars = EmptyNml, !.pc = "after"]

\* Lines 412-429: finalise the namelist group
CloseGroup(R) ==
    IF ~IsDict(R.grp_patch) THEN Raised(R, Raise(R.M, "AttributeError"))
    ELSE GroupStored(R.g_name, AppendPatched(R, 1))

\* Lines 412-413, R2 the reader after the variable
GroupEnd(R2) ==
    IF R2.pc = "raised" THEN R2
    ELSE IF R2.M.token \in Terminators THEN CloseGroup(R2)
    ELSE R2

\* Lines 380-413, M1 the parser at the token after the name
GroupAt(R, M1) ==
    IF M1.exc = "StopIteration"
    THEN Raised(R, Raise(M1, "ValueError: End-of-file before end of namelist group"))
    ELSE IF M1.exc # "" THEN Raised(R, M1)
    ELSE IF M1.token \in {"=", "(", "%"}
    THEN GroupEnd(ReadVariable([R EXCEPT !.M = M1]))
    ELSE GroupEnd([R EXCEPT !.M = M1])

\* Lines 374-429: one iteration of the loop that populates the group
GroupStep(R) ==
    GroupAt(R, IF R.M.token \notin {"=", "%", "("} THEN Advance(R.M) ELSE R.M)

\* Lines 431-434, M the parser after _update_tokens
NextToken(R, M) ==
    IF M.exc = "StopIteration"
    THEN [R EXCEPT !.M = Raise(M, ""), !.pc = "tail"]
    ELSE IF M.exc # "" THEN Raised(R, M)
    ELSE [R EXCEPT !.M = M, !.pc = "outside"]

\* Lines 431-434: the token after a group
AfterGroup(R) == NextToken(R, Advance(R.M))

RECURSIVE AddPatchGroups(_, _, _)
\* Lines 442-443: add the groups left in the patch to the result
AddPatchGroups(n, patch, i) ==
    IF i > Len(patch.keys) THEN n
    ELSE AddPatchGroups(NmlSetKey(n, patch.keys[i], patch.vals[i]),
                        patch, i + 1)

\* Lines 438-443, w the text of the groups left in the patch
PatchWritten(R, w) ==
    IF w.exc # "" THEN Raised(R, Raise(R.M, w.exc))
    ELSE [R EXCEPT !.M.out = IF R.M.pfile
                             THEN @ \o "\n" \o RStrip(w.text) \o "\n"
                             ELSE @,
                   !.nmls = AddPatchGroups(@, R.nml_patch, 1),
                   !.pc = "done"]

\* Lines 436-445: append the remaining patch groups and return
ReadTail(R) ==
    IF ~Truthy(R.nml_patch) THEN [R EXCEPT !.pc = "done"]
    ELSE IF \E i \in 1..Len(R.nml_patch.vals) : ~IsDict(R.nml_patch.vals[i])
    THEN Raised(R, Raise(R.M, "Unmodelled"))
    ELSE PatchWritten(R, WriteStream(DefaultFormat, R.nml_patch))

\* The segment that pc selects
ReadStep(R) ==
    CASE R.pc = "first" -> ReadFirst(R)
      [] R.pc = "outside" -> OpenGroup(R)
      [] R.pc = "group" -> GroupStep(R)
      [] R.pc = "after" -> AfterGroup(R)
      [] R.pc = "tail" -> ReadTail(R)
      [] OTHER -> R

RECURSIVE ReadStream(_)
\* _readstream run to its return or its exception
ReadStream(R) ==
    IF R.pc \in {"done", "raised"} THEN R ELSE ReadStream(ReadStep(R))

\* Parser().reads(nml_string)
Reads(text) == ReadStream(NewReader(text, EmptyNml, FALSE))

\* Parser().read(nml_file, nml_patch, patch_file) with file objects
ReadPatch(text, patch) == ReadStream(NewReader(text, patch, TRUE))

----------------------------------------------------------------------------
(* Equality of Python values                                               *)

\* int and bool compare by number
NumOf(x) == IF x.t = "int" THEN x.v ELSE IF x.v THEN 1 ELSE 0

RECURSIVE PyEq(_, _)
\* a == b; Namelist inherits OrderedDict.__eq__, which compares the keys in
\* order and the values, and ignores start_index
PyEq(a, b) ==
    IF a.t \in {"int", "bool"} /\ b.t \in {"int", "bool"}
    THEN NumOf(a) = NumOf(b)
    ELSE IF IsList(a) /\ IsList(b)
    THEN /\ Len(a.v) = Len(b.v)
         /\ \A i \in 1..Len(a.v) : PyEq(a.v[i], b.v[i])
    ELSE IF IsDict(a) /\ IsDict(b)
    THEN /\ a.keys = b.keys
         /\ \A i \in 1..Len(a.keys) : PyEq(a.vals[i], b.vals[i])
    ELSE a = b

----------------------------------------------------------------------------
(* The reader as a process: one action per segment of _readstream           *)

\* The local state of the running _readstream call
Reader ==
    [M |-> parser, nmls |-> nmls, nml_patch |-> nml_patch, g_name |-> g_name,
     g_vars |-> g_vars, grp_patch |-> grp_patch, pc |-> pc]

StartReader(R) ==
    /\ parser = R.M
    /\ nmls = R.nmls
    /\ nml_patch = R.nml_patch
    /\ g_name = R.g_name
    /\ g_vars = R.g_vars
    /\ grp_patch = R.grp_patch
    /\ pc = R.pc

SetReader(R) ==
    /\ parser' = R.M
    /\ nmls' = R.nmls
    /\ nml_patch' = R.nml_patch
    /\ g_name' = R.g_name
    /\ g_vars' = R.g_vars
    /\ grp_patch' = R.grp_patch
    /\ pc' = R.pc

ReadFirstStep ==
    /\ pc = "first"
    /\ SetReader(ReadFirst(Reader))
    /\ UNCHANGED <<input, output, nml, lastop, merged, fs>>

OpenGroupStep ==
    /\ pc = "outside"
    /\ SetReader(OpenGroup(Reader))
    /\ UNCHANGED <<input, output, nml, lastop, merged, fs>>

GroupLoopStep ==
    /\ pc = "group"
    /\ SetReader(GroupStep(Reader))
    /\ UNCHANGED <<input, output, nml, lastop, merged, fs>>

AfterGroupStep ==
    /\ pc = "after"
    /\ SetReader(AfterGroup(Reader))
    /\ UNCHANGED <<input, output, nml, lastop, merged, fs>>

ReadTailStep ==
    /\ pc = "tail"
    /\ SetReader(ReadTail(Reader))
    /\ UNCHANGED <<input, output, nml, lastop, merged, fs>>

ReadNext ==
    \/ ReadFirstStep
    \/ OpenGroupStep
    \/ GroupLoopStep
    \/ AfterGroupStep
    \/ ReadTailStep

\* Join strings with a separator
RECURSIVE Join(_, _)
Join(strs, sep) ==
    IF strs = <<>> THEN ""
    ELSE IF Len(strs) = 1 THEN strs[1]
    ELSE strs[1] \o sep \o Join(Tail(strs), sep)

\* All sequences over S of length at most n
SeqsUpTo(S, n) == UNION {[1..k -> S] : k \in 0..n}

----------------------------------------------------------------------------
(* Scenario: one assignment with a list of values, commas and repeat       *)
(* counts, read by Parser.reads                                            *)

MaxItems == 4

ValueHeads == {"v", "v(1:2)"}
ValueItems == {",", "1", "2*"}
ValueTails == {"/", "w = 3 /"}

ValuesText(in) ==
    "&g " \o in.head \o " = " \o Join(in.items \o <<in.tail>>, " ")

ValueInputs ==
    {[kind |-> "values", head |-> h, items |-> it, tail |-> tl] :
        h \in ValueHeads, it \in SeqsUpTo(ValueItems, MaxItems),
        tl \in ValueTails}

InitValues ==
    /\ input \in ValueInputs
    /\ StartReader(NewReader(ValuesText(input), EmptyNml, FALSE))
    /\ output = ""
    /\ nml = EmptyNml
    /\ lastop = NoneV
    /\ merged = NoneV
    /\ fs = NoFiles

SpecValues == InitValues /\ [][ReadNext]_vars

\* The variable v of group g in the finished result
ResultVar == NmlGetItem(NmlGetItem(nmls, "g"), "v")
ResultStart == NmlGetItem(nmls, "g").start_index

\* The token that ends the value list: the terminator or the next name
EndToken(in) == SubSeq(in.tail, 1, 1)

NoRepeat(items) == \A i \in 1..Len(items) : items[i] # "2*"

RECURSIVE RuleSlots(_, _, _)
\* The slots that the rule of implicit nulls gives for a value list: a value
\* is a slot, a comma is a null slot after "=" or a comma, and the
\* terminator is a null slot only directly after "="
RuleSlots(items, endtok, prior) ==
    IF items = <<>>
    THEN IF endtok = "/" /\ prior = "=" THEN <<NoneV>> ELSE <<>>
    ELSE LET t == Head(items)
         IN  (IF t # "," THEN <<IntV(StrToInt(t))>>
              ELSE IF prior \in {"=", ","} THEN <<NoneV>> ELSE <<>>)
             \o RuleSlots(Tail(items), endtok, t)

Take(s, n) == SubSeq(s, 1, Min2(n, Len(s)))

SlotsOf(v) == IF IsList(v) THEN v.v ELSE <<v>>

----------------------------------------------------------------------------
(* Scenario: a Namelist is written by Namelist._writestream and the text   *)
(* is read back by Parser.reads                                            *)

MaxLen == 3

\* A Namelist built by assignments
Nml1(key, value) == NmlSetItem(EmptyNml, key, value)
Nml2(k1, v1, k2, v2) == NmlSetItem(Nml1(k1, v1), k2, v2)

RoundScalars ==
    {IntV(1), IntV(-3), BoolV(TRUE), BoolV(FALSE), StrV("a"), StrV("it's"), NoneV}

RoundLists == {ListV(s) : s \in SeqsUpTo({IntV(1), BoolV(TRUE), StrV("a"), NoneV}, MaxLen)}

RoundDerived ==
    {Nml1("a", x) : x \in RoundScalars
                        \cup {ListV(s) : s \in SeqsUpTo({IntV(2), NoneV}, 2)}}
    \cup {Nml1("a", Nml1("b", x)) :
            x \in {IntV(1), ListV(<<IntV(1)>>), ListV(<<IntV(1), NoneV>>), EmptyNml}}
    \cup {EmptyNml, Nml2("a", IntV(1), "b", ListV(<<IntV(1), IntV(2)>>))}

RoundInputs ==
    {[kind |-> "round", value |-> x, second |-> b] :
        x \in RoundScalars \cup RoundLists \cup RoundDerived, b \in BOOLEAN}

\* The Namelist of an input: group g with variable v, and w after it
RoundNml(in) ==
    Nml1("g", IF in.second THEN Nml2("v", in.value, "w", IntV(2))
              ELSE Nml1("v", in.value))

InitRound ==
    /\ input \in RoundInputs
    /\ nml = RoundNml(input)
    /\ StartReader([NewReader("", EmptyNml, FALSE) EXCEPT !.pc = "write"])
    /\ output = ""
    /\ lastop = NoneV
    /\ merged = NoneV
    /\ fs = NoFiles

\* The text w is written and Parser.reads starts on it
Wrote(w) ==
    /\ output' = w.text
    /\ IF w.exc # ""
       THEN SetReader(Raised(Reader, Raise(parser, w.exc)))
       ELSE SetReader(NewReader(w.text, EmptyNml, FALSE))
    /\ UNCHANGED <<input, nml, lastop, merged, fs>>

\* nml._writestream(nml_file)
WriteStep ==
    /\ pc = "write"
    /\ Wrote(WriteStream(DefaultFormat, nml))

RoundNext == WriteStep \/ ReadNext

SpecRound == InitRound /\ [][RoundNext]_vars

RECURSIVE Delisted(_)
\* A value with every list of one value replaced by the value and every
\* empty list by null, as delist does
Delisted(v) ==
    IF IsDict(v) THEN [v EXCEPT !.vals = [i \in DOMAIN v.vals |-> Delisted(v.vals[i])]]
    ELSE IF IsList(v) THEN delist(v)
    ELSE v

RECURSIVE HasEmptyDt(_)
\* The value is or holds a derived type without components
HasEmptyDt(v) ==
    /\ IsDict(v)
    /\ \/ v.keys = <<>>
       \/ \E i \in 1..Len(v.vals) : HasEmptyDt(v.vals[i])

----------------------------------------------------------------------------
(* Scenario: Parser.read with a patch and a patch file, followed by        *)
(* Parser.reads of the text written to the patch file                      *)

MaxSrc == 3

\* The values x has in the source: "1", "1, 2", ... up to n values
RECURSIVE SrcValues(_)
SrcValues(n) == IF n = 1 THEN "1" ELSE SrcValues(n - 1) \o ", " \o IntToStr(n)

\* The values the patch may give to x; <<>> when x is not in the patch
PatchXs ==
    {<<>>, <<IntV(5)>>, <<ListV(<<IntV(5), IntV(6)>>)>>,
     <<ListV(<<IntV(5), IntV(6), IntV(7)>>)>>}

PatchInputs ==
    {[kind |-> "patch", n |-> n, cmt |-> c, nl |-> e, x |-> x, y |-> y, z |-> z] :
        n \in 1..MaxSrc, c \in {"", " ! c"}, e \in {"\n", ""},
        x \in PatchXs, y \in {<<>>, <<IntV(7)>>}, z \in {<<>>, <<IntV(9)>>}}

\* The text in front of the values of x, between the values of x and the
\* value of y, and after the value of y
SrcHead == "&g\n x = "
SrcMid(in) == in.cmt \o "\n y = "
SrcTail(in) == "\n/" \o in.nl

\* The source: group g with x, an optional comment, and y
PatchSource(in) ==
    SrcHead \o SrcValues(in.n) \o SrcMid(in) \o "2" \o SrcTail(in)

\* n[key] = value when the patch has a value for key
SetIf(n, key, val) == IF val = <<>> THEN n ELSE NmlSetItem(n, key, val[1])

\* The patch: group g with the variables that have a value
PatchNml(in) ==
    IF in.x = <<>> /\ in.y = <<>> /\ in.z = <<>> THEN EmptyNml
    ELSE Nml1("g", SetIf(SetIf(SetIf(EmptyNml, "x", in.x), "y", in.y), "z", in.z))

InitPatch ==
    /\ input \in PatchInputs
    /\ StartReader(NewReader(PatchSource(input), PatchNml(input), TRUE))
    /\ output = ""
    /\ nml = EmptyNml
    /\ lastop = NoneV
    /\ merged = NoneV
    /\ fs = NoFiles

\* The patch file is closed and parsed with Parser.reads; nml keeps the
\* Namelist that the patch read returned
RereadStep ==
    /\ pc = "done"
    /\ input.kind = "patch"
    /\ lastop = NoneV
    /\ lastop' = StrV("reread")
    /\ nml' = nmls
    /\ output' = parser.out
    /\ SetReader(NewReader(parser.out, EmptyNml, FALSE))
    /\ UNCHANGED <<input, merged, fs>>

PatchNext == ReadNext \/ RereadStep

SpecPatch == InitPatch /\ [][PatchNext]_vars

\* text ends with suffix
EndsWith(text, suffix) ==
    /\ Len(suffix) <= Len(text)
    /\ SubSeq(text, Len(text) - Len(suffix) + 1, Len(text)) = suffix

\* The patch read has returned
Patched == input.kind = "patch" /\ pc = "done" /\ lastop = NoneV

\* text is the source with the span between head and mid and the span
\* between mid and tail replaced; an unpatched span keeps the source's text
SameOutsideValues(text, in) ==
    /\ StartsWith(text, SrcHead)
    /\ EndsWith(text, SrcTail(in))
    /\ \E k \in Len(SrcHead)..(Len(text) - Len(SrcMid(in)) - Len(SrcTail(in))) :
        /\ SubSeq(text, k + 1, k + Len(SrcMid(in))) = SrcMid(in)
        /\ in.x = <<>> => SubSeq(text, Len(SrcHead) + 1, k) = SrcValues(in.n)
        /\ in.y = <<>> =>
             SubSeq(text, k + Len(SrcMid(in)) + 1, Len(text) - Len(SrcTail(in))) = "2"

\* C2 as stated: the text written to the patch file equals the source
\* outside the value spans of the patched variables x and y (every patch
\* variable is in the source), and an empty patch reproduces the source.
C2_PatchExact ==
    (Patched /\ input.z = <<>>) => SameOutsideValues(parser.out, input)

\* The value the finished read has for variable key of group g
GroupVar(n, key) == NmlGet(NmlGet(n, "g"), key)

\* The patch read has returned and its output has been read again
Reread == input.kind = "patch" /\ lastop = StrV("reread") /\ pc \in {"done", "raised"}

\* C3 as stated: the patch read returns the patch's value for every patched
\* variable, and reading the patch output again yields the patch's values
\* for all patched variables, those absent from the source included.
C3_PatchSubstituted ==
    Reread =>
        /\ pc = "done"
        /\ \A key \in {"x", "y", "z"} :
             input[key] # <<>> =>
                /\ PyEq(GroupVar(nml, key), input[key][1])
                /\ PyEq(GroupVar(nmls, key), input[key][1])

----------------------------------------------------------------------------
(* Scenario: an indexed assignment followed by an un-indexed assignment to *)
(* the same variable, under a chosen default_start_index                   *)

MaxStart == 4

\* Parser.default_start_index = d
SetDefaultStartIndex(R, d) == [R EXCEPT !.M.default_start_index = d]

\* The un-indexed values 1, 2, ..., m
RECURSIVE CountTo(_)
CountTo(m) == IF m = 1 THEN "1" ELSE CountTo(m - 1) \o ", " \o IntToStr(m)

IndexInputs ==
    {[kind |-> "index", s |-> s, d |-> d, name |-> name, m |-> m] :
        s \in 0..MaxStart, d \in {0, 1, 2}, name \in {"v", "V"}, m \in {2, 3}}

\* v(s:s+2) = 3, 4, 5 followed by v = 1, ..., m in one group
IndexSource(in) ==
    "&g v(" \o IntToStr(in.s) \o ":" \o IntToStr(in.s + 2) \o ") = 3, 4, 5 "
        \o in.name \o " = " \o CountTo(in.m) \o " /\n"

InitIndex ==
    /\ input \in IndexInputs
    /\ StartReader(SetDefaultStartIndex(
           NewReader(IndexSource(input), EmptyNml, FALSE), input.d))
    /\ output = ""
    /\ nml = EmptyNml
    /\ lastop = NoneV
    /\ merged = NoneV
    /\ fs = NoFiles

SpecIndex == InitIndex /\ [][ReadNext]_vars

\* The element of list value v at Fortran index i when the list starts at
\* index first; null outside the list
ElementAt(v, first, i) ==
    IF v.t = "list" /\ i - first + 1 \in 1..Len(v.v) THEN v.v[i - first + 1]
    ELSE NoneV

\* The first index recorded for variable key of group n, else d
FirstIndex(n, key, d) ==
    IF key \in DOMAIN n.start_index /\ n.start_index[key] # <<>>
        /\ n.start_index[key][1] # NoneV
    THEN n.start_index[key][1].v ELSE d

\* Group g holds value val for v at Fortran index i
HoldsAt(n, d, i, val) ==
    HasLKey(n, "v")
    /\ ElementAt(GetLKey(n, "v"), FirstIndex(n, "v", d), i) = IntV(val)

\* C4 as stated: after v(s:s+2) = 3, 4, 5 and v = 1, ..., m the un-indexed
\* values are at indices d, d+1, ... and every earlier value that was not
\* overwritten keeps the index it was assigned to.
C4_IndexKept ==
    (input.kind = "index" /\ pc \in {"done", "raised"}) =>
        /\ pc = "done"
        /\ \A j \in 0..(input.m - 1) :
             HoldsAt(NmlGet(nmls, "g"), input.d, input.d + j, j + 1)
        /\ \A j \in 0..2 :
             input.s + j \notin input.d..(input.d + input.m - 1) =>
                HoldsAt(NmlGet(nmls, "g"), input.d, input.s + j, j + 3)

\* The two instances the claim names: s = 3, two values, lower-case name
C4_Named ==
    (input.kind = "index" /\ pc \in {"done", "raised"} /\ input.s = 3
        /\ input.m = 2 /\ input.name = "v" /\ input.d \in {0, 1}) =>
        /\ pc = "done"
        /\ PyEq(GroupVar(nmls, "v"),
                IF input.d = 1
                THEN ListV(<<IntV(1), IntV(2), IntV(3), IntV(4), IntV(5)>>)
                ELSE ListV(<<IntV(1), IntV(2), NoneV, IntV(3), IntV(4), IntV(5)>>))

----------------------------------------------------------------------------
(* Scenario: merge_values on two value lists, and two indexed assignments  *)
(* to one variable that the reader merges                                  *)

MaxMerge == 2

MergeElements ==
    {IntV(1), NoneV, ListV(<<IntV(2)>>), ListV(<<NoneV, IntV(3)>>),
     Nml1("a", IntV(1)), Nml1("b", IntV(2))}

MergeLists == {ListV(s) : s \in SeqsUpTo(MergeElements, MaxMerge)}

MergeInputs ==
    {[kind |-> "merge", src |-> s, new |-> w] :
        s \in MergeLists, w \in MergeLists}

\* v(a:a+1) = 1, 2 followed by v(b:b+1) = 3, 4
RangeInputs ==
    {[kind |-> "ranges", a |-> a, b |-> b] : a \in 1..5, b \in 1..5}

RangeText(a) == "v(" \o IntToStr(a) \o ":" \o IntToStr(a + 1) \o ") = "

RangeSource(in) ==
    "&g " \o RangeText(in.a) \o "1, 2 " \o RangeText(in.b) \o "3, 4 /\n"

InitMerge ==
    /\ input \in MergeInputs \cup RangeInputs
    /\ StartReader(IF input.kind = "merge"
                   THEN [NewReader("", EmptyNml, FALSE) EXCEPT !.pc = "merge"]
                   ELSE NewReader(RangeSource(input), EmptyNml, FALSE))
    /\ output = ""
    /\ nml = EmptyNml
    /\ lastop = NoneV
    /\ merged = NoneV
    /\ fs = NoFiles

\* merged = merge_values(src, new)
MergeStep ==
    /\ pc = "merge"
    /\ merged' = merge_values(input.src, input.new)
    /\ pc' = "done"
    /\ lastop' = StrV("merge")
    /\ UNCHANGED <<parser, nmls, nml_patch, g_name, g_vars, grp_patch,
                   input, output, nml, fs>>

MergeNext == MergeStep \/ ReadNext

SpecMerge == InitMerge /\ [][MergeNext]_vars

\* Element i of list l extended with nulls
Padded(l, i) == IF i \in 1..Len(l.v) THEN l.v[i] ELSE NoneV

Max2(a, b) == IF a < b THEN b ELSE a

BothDicts(s, w) == IsDict(s) /\ IsDict(w)

BothLists(s, w) == IsList(s) /\ IsList(w)

\* Element i of the merge of src and new follows the rule of the claim
MergedElement(m, s, w) ==
    IF BothDicts(s, w) THEN m = merge_dicts(s, w)
    ELSE IF BothLists(s, w) THEN m = merge_lists(s, w)
    ELSE IF ~IsNone(w) THEN m = w
    ELSE m = s

\* No non-null element of src is null in the merge m
KeepsNonNull(m, src) ==
    \A i \in 1..Len(src.v) : ~IsNone(src.v[i]) => ~IsNone(m.v[i])

Merged == input.kind = "merge" /\ lastop = StrV("merge")

\* Both ranges are read and do not overlap
Disjoint ==
    /\ input.kind = "ranges"
    /\ pc \in {"done", "raised"}
    /\ (input.a + 1 < input.b \/ input.b + 1 < input.a)

\* C5: the merge of src and new has length max(len(src), len(new)); its
\* element i is the recursive merge when both elements are mappings or both
\* are lists, otherwise new[i] when that is non-null, otherwise src[i]; no
\* non-null element of src becomes null; and two assignments to disjoint
\* index ranges of one variable are both retained at their indices.
C5_Merge ==
    /\ Merged =>
        /\ IsList(merged)
        /\ Len(merged.v) = Max2(Len(input.src.v), Len(input.new.v))
        /\ \A i \in 1..Len(merged.v) :
             MergedElement(merged.v[i], Padded(input.src, i), Padded(input.new, i))
        /\ KeepsNonNull(merged, input.src)
    /\ Disjoint =>
        /\ pc = "done"
        /\ HoldsAt(NmlGet(nmls, "g"), 1, input.a, 1)
        /\ HoldsAt(NmlGet(nmls, "g"), 1, input.a + 1, 2)
        /\ HoldsAt(NmlGet(nmls, "g"), 1, input.b, 3)
        /\ HoldsAt(NmlGet(nmls, "g"), 1, input.b + 1, 4)

\* A sparse update [None, [None, 3]] merged into [1, [2]] gives [1, [2, 3]]
C5_Witness ==
    /\ Merged
    /\ input.src = ListV(<<IntV(1), ListV(<<IntV(2)>>)>>)
    /\ input.new = ListV(<<NoneV, ListV(<<NoneV, IntV(3)>>)>>)
    /\ merged = ListV(<<IntV(1), ListV(<<IntV(2), IntV(3)>>)>>)

\* The ranges 4:5 and 1:2 read in that order give [3, 4, None, 1, 2]
RangesKept ==
    /\ Disjoint
    /\ input.a = 4
    /\ input.b = 1
    /\ pc = "done"
    /\ GroupVar(nmls, "v") = ListV(<<IntV(3), IntV(4), NoneV, IntV(1), IntV(2)>>)

----------------------------------------------------------------------------
(* Scenario: one element of an array of derived types, a%b(i)%c = 2        *)

MaxIdx == 3

DerivedInputs ==
    {[kind |-> "derived", i |-> i, d |-> d, prefix |-> p, suffix |-> x] :
        i \in 0..MaxIdx, d \in {0, 1, 2},
        p \in {"", "x = 1 ", "a%x = 1 "}, x \in {"/", "y = 3 /"}}

DerivedSource(in) ==
    "&g " \o in.prefix \o "a%b(" \o IntToStr(in.i) \o ")%c = 2 "
        \o in.suffix \o "\n"

InitDerived ==
    /\ input \in DerivedInputs
    /\ StartReader(SetDefaultStartIndex(
           NewReader(DerivedSource(input), EmptyNml, FALSE), input.d))
    /\ output = ""
    /\ nml = EmptyNml
    /\ lastop = NoneV
    /\ merged = NoneV
    /\ fs = NoFiles

SpecDerived == InitDerived /\ [][ReadNext]_vars

\* The group has been read
DerivedRead == input.kind = "derived" /\ pc \in {"done", "raised"}

\* The derived type a of group g
DerivedA == GroupVar(nmls, "a")

\* a%b is the list vs and start_index['b'] of a is [first]
DerivedIs(a, vs, first) ==
    /\ IsDict(a)
    /\ HasLKey(a, "b")
    /\ GetLKey(a, "b") = ListV(vs)
    /\ "b" \in DOMAIN a.start_index
    /\ a.start_index["b"] = <<IntV(first)>>

----------------------------------------------------------------------------
(* Scenario: a file of groups with repeated names is read and written      *)

MaxGroups == 4

GroupNames == {"g", "G", "h"}

GroupsInputs ==
    {[kind |-> "groups", names |-> s] :
        s \in SeqsUpTo(GroupNames, MaxGroups) \ {<<>>}}

RECURSIVE GroupsSource(_, _)
\* Group i is &name x = i /
GroupsSource(names, i) ==
    IF i > Len(names) THEN ""
    ELSE "&" \o names[i] \o " x = " \o IntToStr(i) \o " /\n"
         \o GroupsSource(names, i + 1)

InitGroups ==
    /\ input \in GroupsInputs
    /\ StartReader(NewReader(GroupsSource(input.names, 1), EmptyNml, FALSE))
    /\ output = ""
    /\ nml = EmptyNml
    /\ lastop = NoneV
    /\ merged = NoneV
    /\ fs = NoFiles

\* nmls._writestream(nml_file) on the parsed Namelist
WriteOutStep ==
    /\ pc = "done"
    /\ input.kind = "groups"
    /\ lastop = NoneV
    /\ lastop' = StrV("written")
    /\ output' = WriteStream(DefaultFormat, nmls).text
    /\ UNCHANGED <<pc, parser, nmls, nml_patch, g_name, g_vars, grp_patch,
                   input, nml, merged, fs>>

GroupsFileNext == ReadNext \/ WriteOutStep

SpecGroups == InitGroups /\ [][GroupsFileNext]_vars

RECURSIVE Occurrences(_, _, _)
\* The groups named lkey in any letter case, in file order from group i on
Occurrences(names, lkey, i) ==
    IF i > Len(names) THEN <<>>
    ELSE (IF Lower(names[i]) = lkey THEN <<Nml1("x", IntV(i))>> ELSE <<>>)
         \o Occurrences(names, lkey, i + 1)

\* view is the list view of the groups gs
ViewOf(view, gs) ==
    /\ view.t = "cogroup"
    /\ Len(view.v) = Len(gs)
    /\ \A i \in 1..Len(gs) : PyEq(view.v[i], gs[i])

\* The Namelist n holds the groups of names, each under its name, in file
\* order
InFileOrder(n, names) ==
    /\ Len(n.keys) = Len(names)
    /\ \A i \in 1..Len(names) :
        /\ CogroupBasename(n.keys[i]) = Lower(names[i])
        /\ PyEq(n.vals[i], Nml1("x", IntV(i)))

RECURSIVE GroupBlocks(_, _)
\* The blocks of the groups from i on, a blank line between two blocks
GroupBlocks(names, i) ==
    IF i > Len(names) THEN ""
    ELSE (IF i > 1 THEN "\n" ELSE "")
         \o "&" \o Lower(names[i]) \o "\n    x = " \o IntToStr(i) \o "\n/\n"
         \o GroupBlocks(names, i + 1)

GroupsParsed == input.kind = "groups" /\ pc \in {"done", "raised"}

GroupsWritten == input.kind = "groups" /\ lastop = StrV("written")

\* C8: a name that occurs n >= 2 times (in any letter case) looks up, in
\* either case, to the list of its n groups in file order; all groups keep
\* their file order in the Namelist; and writing emits one block per group
\* in file order with one blank line between consecutive blocks.
C8_CogroupOrder ==
    /\ GroupsParsed =>
        /\ pc = "done"
        /\ InFileOrder(nmls, input.names)
        /\ \A lkey \in {"g", "h"} :
             Len(Occurrences(input.names, lkey, 1)) >= 2 =>
                /\ ViewOf(NmlGetItem(nmls, lkey), Occurrences(input.names, lkey, 1))
                /\ ViewOf(NmlGetItem(nmls, Upper(lkey)),
                          Occurrences(input.names, lkey, 1))
    /\ GroupsWritten => output = GroupBlocks(input.names, 1)

\* g, h, G: the lookup of g gives groups 1 and 3 and three blocks are written
C8_Witness ==
    /\ GroupsWritten
    /\ input.names = <<"g", "h", "G">>
    /\ ViewOf(NmlGetItem(nmls, "G"), <<Nml1("x", IntV(1)), Nml1("x", IntV(3))>>)
    /\ nmls.keys = <<"_grp_g_0", "h", "_grp_g_1">>
    /\ output = "&g\n    x = 1\n/\n\n&h\n    x = 2\n/\n\n&g\n    x = 3\n/\n"

----------------------------------------------------------------------------
(* Scenario: set, get, contains and delete on a Namelist with names in any *)
(* letter case                                                             *)

DictNames == {"a", "A", "g", "G"}

DictValues == {IntV(1), Nml1("x", IntV(2))}

DictOps == {"set", "getitem", "get", "contains", "delete"}

\* The Namelist of a file with the groups g and G
TwoGroups ==
    AddCogroup(NmlSetItem(EmptyNml, "g", Nml1("x", IntV(1))), "G", Nml1("x", IntV(2)))

DictInputs == {[kind |-> "dict", start |-> s] : s \in {"empty", "groups"}}

\* The outcome of an operation: the Namelist after it, the exception and
\* the value returned
Outcome(n, exc, result) == [n |-> n, exc |-> exc, result |-> result]

\* nml[key] = value, nml[key], nml.get(key), key in nml, del nml[key]
OutcomeOf(op, n, key, value) ==
    CASE op = "set" -> Outcome(NmlSetItem(n, key, value), "", NoneV)
      [] op = "getitem" ->
            IF NmlMissing(n, key) THEN Outcome(n, "KeyError", NoneV)
            ELSE Outcome(n, "", NmlGetItem(n, key))
      [] op = "get" -> Outcome(n, "", NmlGet(n, key))
      [] op = "contains" -> Outcome(n, "", BoolV(NmlContains(n, key)))
      [] op = "delete" ->
            IF LKeyDelMissing(n, Lower(key)) THEN Outcome(n, "KeyError", NoneV)
            ELSE Outcome(NmlDelItem(n, key), "", NoneV)

InitDict ==
    /\ input \in DictInputs
    /\ StartReader([NewReader("", EmptyNml, FALSE) EXCEPT !.pc = "api"])
    /\ output = ""
    /\ nml = IF input.start = "empty" THEN EmptyNml ELSE TwoGroups
    /\ lastop = NoneV
    /\ merged = NoneV
    /\ fs = NoFiles

\* The operation is applied and its outcome recorded
Applied(op, key, value, o) ==
    /\ nml' = o.n
    /\ lastop' = [t |-> "op", op |-> op, key |-> key, value |-> value,
                  before |-> nml, exc |-> o.exc, result |-> o.result]
    /\ UNCHANGED <<pc, parser, nmls, nml_patch, g_name, g_vars, grp_patch,
                   input, output, merged, fs>>

SetItemStep ==
    /\ pc = "api" /\ input.kind = "dict"
    /\ \E key \in DictNames, value \in DictValues :
         Applied("set", key, value, OutcomeOf("set", nml, key, value))

GetItemStep ==
    /\ pc = "api" /\ input.kind = "dict"
    /\ \E key \in DictNames :
         Applied("getitem", key, NoneV, OutcomeOf("getitem", nml, key, NoneV))

GetStep ==
    /\ pc = "api" /\ input.kind = "dict"
    /\ \E key \in DictNames :
         Applied("get", key, NoneV, OutcomeOf("get", nml, key, NoneV))

ContainsStep ==
    /\ pc = "api" /\ input.kind = "dict"
    /\ \E key \in DictNames :
         Applied("contains", key, NoneV, OutcomeOf("contains", nml, key, NoneV))

DelItemStep ==
    /\ pc = "api" /\ input.kind = "dict"
    /\ \E key \in DictNames :
         Applied("delete", key, NoneV, OutcomeOf("delete", nml, key, NoneV))

DictNext == SetItemStep \/ GetItemStep \/ GetStep \/ ContainsStep \/ DelItemStep

SpecDict == InitDict /\ [][DictNext]_vars

\* The names that differ from key in letter case only
Variants(key) == {k \in DictNames : Lower(k) = Lower(key)}

\* Every stored key is lower-case and stored once
LowerKeys(n) ==
    /\ \A i \in 1..Len(n.keys) : n.keys[i] = Lower(n.keys[i])
    /\ \A i, j \in 1..Len(n.keys) : n.keys[i] = n.keys[j] => i = j

\* Every operation on n has the same outcome for key and for k
SameOutcomes(n, key, k) ==
    \A op \in DictOps, value \in DictValues :
        OutcomeOf(op, n, key, value) = OutcomeOf(op, n, k, value)

\* Setting key where an entry is stored under the lowered key replaces its
\* value in place
Replaces(n, key, value) ==
    DictHas(n, Lower(key)) =>
        /\ NmlSetItem(n, key, value).keys = n.keys
        /\ DictGet(NmlSetItem(n, key, value), Lower(key)) = value

----------------------------------------------------------------------------
(* The list view of a repeated group: Cogroup.__setitem__ and __delitem__  *)

\* cogroup[index] = value keeps the stored value
CogroupSetNone(n, lkey, index, value) == Outcome(n, "", NoneV)

\* Cogroup.__setitem__ on the view Cogroup(n, lkey): key = self.keys[index],
\* self.nml[key] = value
CogroupSetItem(n, lkey, index, value) ==
    IF PyPos(CogroupKeys(n, lkey), index) = 0
    THEN Outcome(n, "IndexError", NoneV)
    ELSE Outcome(NmlSetKey(n, CogroupKeys(n, lkey)[PyPos(CogroupKeys(n, lkey), index)],
                           value), "", NoneV)

\* self.nml._cogroups[self.key].remove(ikey), and the record is deleted
\* when it is empty
CogroupForget(n, lkey, ikey) ==
    IF lkey \notin DOMAIN n.cogroups THEN Outcome(n, "KeyError", NoneV)
    ELSE IF SeqIndex(n.cogroups[lkey], ikey, 1) = 0
    THEN Outcome(n, "ValueError", NoneV)
    ELSE IF Len(n.cogroups[lkey]) = 1
    THEN Outcome([n EXCEPT !.cogroups = MapDel(@, lkey)], "", NoneV)
    ELSE Outcome([n EXCEPT !.cogroups[lkey] =
                      SeqRemoveAt(@, SeqIndex(n.cogroups[lkey], ikey, 1))],
                 "", NoneV)

\* Cogroup.__delitem__ on the view Cogroup(n, lkey): del self.nml[nmlkey],
\* then the record of the cogroup is updated
CogroupDelItem(n, lkey, index) ==
    IF PyPos(CogroupKeys(n, lkey), index) = 0
    THEN Outcome(n, "IndexError", NoneV)
    ELSE CogroupForget(
             DictDel(n, CogroupKeys(n, lkey)[PyPos(CogroupKeys(n, lkey), index)]),
             lkey, CogroupKeys(n, lkey)[PyPos(CogroupKeys(n, lkey), index)])

----------------------------------------------------------------------------
(* Scenario: groups are stored as the parser stores them, and elements of  *)
(* the list views of repeated names are assigned and deleted               *)

MaxOps == 5

CogroupInputs == {[kind |-> "cogroup"]}

InitCogroup ==
    /\ input \in CogroupInputs
    /\ StartReader([NewReader("", EmptyNml, FALSE) EXCEPT !.pc = "api"])
    /\ output = ""
    /\ nml = EmptyNml
    /\ lastop = [t |-> "op", op |-> "new", key |-> "", index |-> 0,
                 value |-> NoneV, before |-> EmptyNml, exc |-> "", count |-> 0]
    /\ merged = NoneV
    /\ fs = NoFiles

\* The operation is applied and recorded with the Namelist before it
Operated(op, key, index, value, o) ==
    /\ nml' = o.n
    /\ lastop' = [t |-> "op", op |-> op, key |-> key, index |-> index,
                  value |-> value, before |-> nml, exc |-> o.exc,
                  count |-> lastop.count + 1]
    /\ UNCHANGED <<pc, parser, nmls, nml_patch, g_name, g_vars, grp_patch,
                   input, output, merged, fs>>

CogroupReady == pc = "api" /\ input.kind = "cogroup" /\ lastop.count < MaxOps

\* The value stored by operation number count
StepValue(count) == Nml1("x", IntV(count))

\* The next group of the file is stored under its name
AddGroupStep ==
    /\ CogroupReady
    /\ \E name \in GroupNames :
         Operated("add", name, 0, StepValue(lastop.count + 1),
                  Outcome(StoreGroup(nml, name, StepValue(lastop.count + 1)),
                          "", NoneV))

\* The indices of the view of name, one past its end, and -1
ViewIndices(n, name) == -1..Len(CogroupKeys(n, Lower(name)))

\* nml[name][index] = value for a repeated name
CogSetStep ==
    /\ CogroupReady
    /\ \E name \in GroupNames :
         /\ Lower(name) \in DOMAIN nml.cogroups
         /\ \E index \in ViewIndices(nml, name) :
              Operated("set", name, index, StepValue(lastop.count + 1),
                       CogroupSetItem(nml, Lower(name), index,
                                      StepValue(lastop.count + 1)))

\* del nml[name][index] for a repeated name
CogDelStep ==
    /\ CogroupReady
    /\ \E name \in GroupNames :
         /\ Lower(name) \in DOMAIN nml.cogroups
         /\ \E index \in ViewIndices(nml, name) :
              Operated("delete", name, index, NoneV,
                       CogroupDelItem(nml, Lower(name), index))

CogroupNext == AddGroupStep \/ CogSetStep \/ CogDelStep

SpecCogroup == InitCogroup /\ [][CogroupNext]_vars

\* The keys and values of n as one sequence of pairs
Items(n) == [i \in 1..Len(n.keys) |-> <<n.keys[i], n.vals[i]>>]

\* The last operation acted on position p of the view of a repeated name
ActedAt(op, p) ==
    /\ input.kind = "cogroup"
    /\ lastop.op = op
    /\ lastop.exc = ""
    /\ p = PyPos(CogroupKeys(lastop.before, Lower(lastop.key)), lastop.index)

\* The position in before of occurrence p of name
EntryOf(before, name, p) ==
    SeqIndex(before.keys, CogroupKeys(before, Lower(name))[p], 1)

\* The view of name in n, as a fresh lookup returns it
FreshView(n, name) == NmlGetItem(n, name).v

\* C10: assigning to position i of the view of a repeated name replaces
\* exactly the entry of occurrence i in the Namelist, and deleting position
\* i removes exactly that entry, and the name with it when it was the last
\* occurrence; a fresh lookup of the name shows the change, and every other
\* entry and the order of the entries are unchanged. An index outside the
\* view changes nothing.
C10_WriteThrough ==
    input.kind = "cogroup" =>
        /\ \A p \in 1..Len(lastop.before.keys) : ActedAt("set", p) =>
            /\ Items(nml) =
                 [Items(lastop.before) EXCEPT
                    ![EntryOf(lastop.before, lastop.key, p)][2] = lastop.value]
            /\ FreshView(nml, lastop.key) =
                 [FreshView(lastop.before, lastop.key) EXCEPT ![p] = lastop.value]
            /\ nml.cogroups = lastop.before.cogroups
        /\ \A p \in 1..Len(lastop.before.keys) : ActedAt("delete", p) =>
            /\ Items(nml) =
                 SeqRemoveAt(Items(lastop.before),
                             EntryOf(lastop.before, lastop.key, p))
            /\ IF Len(FreshView(lastop.before, lastop.key)) = 1
               THEN ~NmlContains(nml, lastop.key)
               ELSE FreshView(nml, lastop.key) =
                      SeqRemoveAt(FreshView(lastop.before, lastop.key), p)
            /\ \A name \in GroupNames :
                 Lower(name) # Lower(lastop.key) =>
                    NmlGet(nml, name) = NmlGet(lastop.before, name)
        /\ (lastop.op \in {"set", "delete"} /\ lastop.exc # "") =>
            /\ lastop.exc = "IndexError"
            /\ nml = lastop.before

\* g, h, G were stored and the second g is replaced through the view
C10_Witness ==
    /\ ActedAt("set", 2)
    /\ lastop.key = "G"
    /\ lastop.before.keys = <<"_grp_g_0", "h", "_grp_g_1">>
    /\ nml.keys = <<"_grp_g_0", "h", "_grp_g_1">>
    /\ nml.vals = <<Nml1("x", IntV(1)), Nml1("x", IntV(2)), lastop.value>>
    /\ lastop.value # Nml1("x", IntV(3))

----------------------------------------------------------------------------
(* Scenario: one indexed assignment whose index specification is well      *)
(* formed or has one fault                                                 *)

\* An index specification with the fault it has ("" for none) and the
\* token int() fails on
IndexSpec(text, fault, token) == [text |-> text, fault |-> fault, token |-> token]

IndexSpecs ==
    {IndexSpec("", "empty", ""), IndexSpec("1,", "empty", ""),
     IndexSpec(",1", "empty", ""),
     IndexSpec("b", "integer", "b"), IndexSpec("1.5", "integer", "1.5"),
     IndexSpec("1:b", "integer", "b"), IndexSpec("1:2:c", "integer", "c"),
     IndexSpec("1:3:0.5", "integer", "0.5"),
     IndexSpec("1::2", "end", ""), IndexSpec("::", "end", ""),
     IndexSpec("1:3:", "stride", ""), IndexSpec(":2:", "stride", ""),
     IndexSpec("1:3:0", "zero", ""),
     IndexSpec("1 2", "close", ""), IndexSpec("1:2 3", "close", ""),
     IndexSpec("1:2:1 4", "close", ""), IndexSpec("1=", "close", ""),
     IndexSpec(":", "", ""), IndexSpec(":3", "", ""), IndexSpec("2:", "", ""),
     IndexSpec("1:3:2", "", ""), IndexSpec("-1", "", ""), IndexSpec("+1", "", ""),
     IndexSpec("1,2", "", ""), IndexSpec("1:2:-1", "", ""), IndexSpec("3", "", "")}

SyntaxInputs ==
    {[kind |-> "syntax", spec |-> s, name |-> n, prefix |-> p] :
        s \in IndexSpecs, n \in {"var", "xy"}, p \in {"", "k = 2 "}}

SyntaxSource(in) ==
    "&g " \o in.prefix \o in.name \o "(" \o in.spec.text \o ") = 1 /\n"

InitSyntax ==
    /\ input \in SyntaxInputs
    /\ StartReader(NewReader(SyntaxSource(input), EmptyNml, FALSE))
    /\ output = ""
    /\ nml = EmptyNml
    /\ lastop = NoneV
    /\ merged = NoneV
    /\ fs = NoFiles

SpecSyntax == InitSyntax /\ [][ReadNext]_vars

\* text occurs in s
Contains(s, text) ==
    \E i \in 1..(Len(s) - Len(text) + 1) : SubSeq(s, i, i + Len(text) - 1) = text

\* The read of the assignment has ended
SyntaxRead == input.kind = "syntax" /\ pc \in {"done", "raised"}

\* The read raised ValueError and returned no Namelist
RaisedValueError == pc = "raised" /\ StartsWith(parser.exc, "ValueError: ")

----------------------------------------------------------------------------
(* Scenario: a namelist file cut off after any number of characters        *)

\* The files that are cut; & and / occur in them as group opener and group
\* terminator only
TruncFiles ==
    {"&g x(1:2) = 1, 2 /\n&h y = 'a' /\n", "&g\n v%a = 2*3 ! c\n/\n"}

MaxCut == 32

TruncInputs ==
    {[kind |-> "trunc", file |-> f, cut |-> i, nl |-> e] :
        f \in TruncFiles, i \in 0..MaxCut, e \in {"", "\n"}}

\* The first cut characters of the file, with or without a final newline
TruncSource(in) == SubSeq(in.file, 1, Min2(in.cut, Len(in.file))) \o in.nl

InitTrunc ==
    /\ input \in {in \in TruncInputs : in.cut <= Len(in.file)}
    /\ StartReader(NewReader(TruncSource(input), EmptyNml, FALSE))
    /\ output = ""
    /\ nml = EmptyNml
    /\ lastop = NoneV
    /\ merged = NoneV
    /\ fs = NoFiles

SpecTrunc == InitTrunc /\ [][ReadNext]_vars

\* The number of characters of s that equal c
CountChar(s, c) == Cardinality({i \in 1..Len(s) : SubSeq(s, i, i) = c})

\* The text ends after a group opener and before the terminator of the group
Unterminated(text) == CountChar(text, "&") > CountChar(text, "/")

TruncRead == input.kind = "trunc" /\ pc \in {"done", "raised"}

\* C12: when the input ends after a group opener and before the terminator
\* of that group the read raises an error and returns no Namelist; when it
\* ends outside any group the read returns normally.
C12_Unterminated ==
    TruncRead =>
        IF Unterminated(TruncSource(input))
        THEN pc = "raised" /\ parser.exc # ""
        ELSE pc = "done" /\ parser.exc = ""

\* The file ends in the middle of the value list of x
C12_Witness ==
    /\ TruncRead
    /\ TruncSource(input) = "&g x(1:2) = 1,"
    /\ pc = "raised"
    /\ parser.exc = EofError

----------------------------------------------------------------------------
(* Files: the paths and streams that Namelist.write and Parser.read are    *)
(* called with, and what the calls open and close                          *)

\* A file named by its path, and a stream the caller has opened
PathV(p) == [t |-> "path", v |-> p]
StreamV(s) == [t |-> "stream", v |-> s]

\* hasattr(f, 'read')
IsStream(f) == f.t = "stream"

\* A handle on a file or on a stream of the caller
Handle(target, mode, owner) == [target |-> target, mode |-> mode, owner |-> owner]

\* os.path.isfile(path)
IsFile(f, path) == path \in DOMAIN f.files

\* open(path, mode) by owner: 'w' creates or truncates the file, 'r' needs it
OpenFile(f, path, mode, owner) ==
    IF mode = "r" /\ ~IsFile(f, path)
    THEN [fs |-> f, exc |-> "FileNotFoundError"]
    ELSE [fs |-> FileSystem(IF mode = "w" THEN MapSet(f.files, path, "") ELSE f.files,
                            f.handles \cup {Handle(path, mode, owner)},
                            Append(f.log, <<"open", path, mode>>)),
          exc |-> ""]

\* file.close() of the handle that owner opened on path: what was written
\* through a handle opened with 'w' is the text of the file
CloseFile(f, path, mode, owner, text) ==
    FileSystem(IF mode = "w" THEN MapSet(f.files, path, text) ELSE f.files,
               f.handles \ {Handle(path, mode, owner)},
               Append(f.log, <<"close", path, mode>>))

\* The existing file is overwritten without the flag
WriteRefusedNever(path, force, f) == FALSE

\* Namelist.write, lines 583-585: IOError for an existing file without force
WriteRefused(path, force, f) == ~force /\ ~IsStream(path) /\ IsFile(f, path.v)

\* The outcome of a call: the file system after it, its exception, the text
\* written to a stream of the caller, and the Namelist returned
Called(f, exc, text, result) == [fs |-> f, exc |-> exc, text |-> text, result |-> result]

\* Namelist.write once the file is open, w the result of _writestream
WriteClosed(f, path, w) ==
    Called(CloseFile(f, path, "w", "namelist", w.text), w.exc, "", NoneV)

\* Namelist.write(nml_path, force)
NamelistWrite(n, path, force, f) ==
    IF WriteRefused(path, force, f)
    THEN Called(f, "IOError: File " \o path.v \o " already exists.", "", NoneV)
    ELSE IF IsStream(path)
    THEN Called(f, WriteStream(DefaultFormat, n).exc,
                WriteStream(DefaultFormat, n).text, NoneV)
    ELSE WriteClosed(OpenFile(f, path.v, "w", "namelist").fs, path.v,
                     WriteStream(DefaultFormat, n))

\* Parser.read, lines 258-271: the destination of the patch, or the
\* exception; None when no patch is given
PatchDestination(nml_fname, nml_patch_in, patch_fname) ==
    IF IsNone(nml_patch_in) THEN [dest |-> NoneV, exc |-> ""]
    ELSE IF ~IsDict(nml_patch_in)
    THEN [dest |-> NoneV, exc |-> "TypeError: Input patch must be a dict or a Namelist."]
    ELSE IF IsNone(patch_fname) /\ ~IsStream(nml_fname)
    THEN [dest |-> PathV(nml_fname.v \o "~"), exc |-> ""]
    ELSE IF IsNone(patch_fname)
    THEN [dest |-> NoneV, exc |-> "ValueError: f90nml: error: No output file for patch."]
    ELSE IF nml_fname = patch_fname
    THEN [dest |-> NoneV,
          exc |-> "ValueError: f90nml: error: Patch filepath cannot be the same as the original filepath."]
    ELSE [dest |-> patch_fname, exc |-> ""]

\* Parser.read, lines 272-275: the patch file is opened when it is a path
PatchOpened(f, dest) ==
    IF IsNone(dest) \/ IsStream(dest) THEN f
    ELSE OpenFile(f, dest.v, "w", "parser").fs

\* Parser.read, line 279: the source is opened when it is a path
SourceOpened(f, nml_fname) ==
    IF IsStream(nml_fname) THEN [fs |-> f, exc |-> ""]
    ELSE OpenFile(f, nml_fname.v, "r", "parser")

\* Parser.read, lines 286-288: the source is closed when the parser opened it
SourceClosed(f, nml_fname) ==
    IF IsStream(nml_fname) THEN f
    ELSE CloseFile(f, nml_fname.v, "r", "parser", "")

\* The patch file stays open
PatchLeftOpen(f, dest, patch_fname, text) == f

\* Parser.read, lines 289-291: the patch file is closed when there is one
\* and patch_fname was no stream; text is what was written to it
PatchClosed(f, dest, patch_fname, text) ==
    IF IsNone(dest) \/ (~IsNone(patch_fname) /\ IsStream(patch_fname)) THEN f
    ELSE CloseFile(f, dest.v, "w", "parser", text)

\* Parser.read up to the call of _readstream: the exception raised, or the
\* opened files and the reader over the lines of the source
ReadOpened(f, dest, patch_fname, s, text, patch) ==
    IF s.exc # ""
    THEN [fs |-> PatchClosed(s.fs, dest, patch_fname, ""), exc |-> s.exc, R |-> NoneV]
    ELSE [fs |-> s.fs, exc |-> "",
          R |-> NewReader(text, IF IsNone(patch) THEN EmptyNml ELSE patch, ~IsNone(dest))]

ReadCalled(f, nml_fname, d, patch_fname, text, patch) ==
    IF d.exc # "" THEN [fs |-> f, exc |-> d.exc, R |-> NoneV]
    ELSE ReadOpened(f, d.dest, patch_fname,
                    SourceOpened(PatchOpened(f, d.dest), nml_fname), text, patch)

\* Parser.read(nml_fname, nml_patch_in, patch_fname) up to _readstream; text
\* is what the source holds
ParserRead(f, nml_fname, nml_patch_in, patch_fname, text) ==
    ReadCalled(f, nml_fname, PatchDestination(nml_fname, nml_patch_in, patch_fname),
               patch_fname, text, nml_patch_in)

\* Parser.read, lines 286-291: both finally clauses
ReadFinally(f, nml_fname, nml_patch_in, patch_fname, text) ==
    PatchClosed(SourceClosed(f, nml_fname),
                PatchDestination(nml_fname, nml_patch_in, patch_fname).dest,
                patch_fname, text)

----------------------------------------------------------------------------
(* Scenario: one call of Namelist.write or of Parser.read with paths and   *)
(* streams, over a directory that holds some of the files already          *)

FilePaths == {"a", "b", "a~"}

\* What the source holds: a complete file, a file that ends inside a group,
\* and a file with a malformed index
FileTexts == {"&g x = 1 /\n", "&g x = 1\n", "&g x(0:2:0) = 1 /\n"}

\* The patches: none, an empty one, one that replaces x, and no dict at all
FilePatches == {NoneV, EmptyNml, Nml1("g", Nml1("x", IntV(5))), ListV(<<IntV(5)>>)}

FileWrites ==
    {[kind |-> "files", op |-> "write", dest |-> d, force |-> f, exists |-> e,
      src |-> NoneV, text |-> "&g x = 1 /\n", patch |-> NoneV] :
        d \in {PathV("a"), PathV("b"), StreamV("P")}, f \in BOOLEAN,
        e \in SUBSET FilePaths}

FileReads ==
    {[kind |-> "files", op |-> "read", dest |-> d, force |-> FALSE, exists |-> e,
      src |-> s, text |-> t, patch |-> p] :
        d \in {NoneV, PathV("a"), PathV("b"), StreamV("P")},
        e \in SUBSET FilePaths, s \in {PathV("a"), StreamV("S")},
        t \in FileTexts, p \in FilePatches}

\* The files before the call: the source holds the text, the others old text
InitialFiles(in) == [p \in in.exists |-> IF p = "a" THEN in.text ELSE "old"]

\* The streams that the caller has opened for the call
CallerHandles(in) ==
    (IF ~IsNone(in.src) /\ IsStream(in.src)
     THEN {Handle(in.src.v, "r", "caller")} ELSE {}) \cup
    (IF ~IsNone(in.dest) /\ IsStream(in.dest)
     THEN {Handle(in.dest.v, "w", "caller")} ELSE {})

\* The Namelist that is written
WrittenNml == Nml1("g", Nml1("x", IntV(1)))

InitFiles ==
    /\ input \in FileWrites \cup FileReads
    /\ StartReader([NewReader("", EmptyNml, FALSE) EXCEPT !.pc = "call"])
    /\ output = ""
    /\ nml = EmptyNml
    /\ lastop = NoneV
    /\ merged = NoneV
    /\ fs = FileSystem(InitialFiles(input), CallerHandles(input), <<>>)

\* The call has ended with the exception exc, "" for a normal return
Ended(exc) == [t |-> "ended", exc |-> exc]

\* nml.write(dest, force)
WriteCallOf(c) ==
    /\ fs' = c.fs
    /\ output' = c.text
    /\ lastop' = Ended(c.exc)
    /\ pc' = IF c.exc = "" THEN "returned" ELSE "failed"
    /\ UNCHANGED <<parser, nmls, nml_patch, g_name, g_vars, grp_patch, input, nml, merged>>

WriteCallStep ==
    /\ pc = "call"
    /\ input.kind = "files"
    /\ input.op = "write"
    /\ WriteCallOf(NamelistWrite(WrittenNml, input.dest, input.force, fs))

\* Parser().read(src, patch, dest) up to the first step of _readstream
ReadCallOf(c) ==
    /\ fs' = c.fs
    /\ IF c.exc # ""
       THEN /\ pc' = "failed"
            /\ lastop' = Ended(c.exc)
            /\ UNCHANGED <<parser, nmls, nml_patch, g_name, g_vars, grp_patch>>
       ELSE /\ SetReader(c.R)
            /\ UNCHANGED lastop
    /\ UNCHANGED <<input, output, nml, merged>>

\* The text that the source holds when it is opened: the patch file has
\* been opened for writing before
SourceText(f, in) ==
    IF IsStream(in.src) THEN in.text
    ELSE IF IsFile(f, in.src.v) THEN f.files[in.src.v] ELSE ""

ReadCallStep ==
    /\ pc = "call"
    /\ input.kind = "files"
    /\ input.op = "read"
    /\ ReadCallOf(ParserRead(fs, input.src, input.patch, input.dest,
                             SourceText(fs, input)))

\* _readstream has returned or raised: the finally clauses of Parser.read
ReadReturnStep ==
    /\ pc \in {"done", "raised"}
    /\ input.kind = "files"
    /\ fs' = ReadFinally(fs, input.src, input.patch, input.dest, parser.out)
    /\ output' = IF ~IsNone(input.dest) /\ IsStream(input.dest) THEN parser.out ELSE output
    /\ lastop' = Ended(parser.exc)
    /\ nml' = IF pc = "done" THEN nmls ELSE nml
    /\ pc' = IF pc = "done" THEN "returned" ELSE "failed"
    /\ UNCHANGED <<parser, nmls, nml_patch, g_name, g_vars, grp_patch, input, merged>>

FilesNext == ReadNext \/ WriteCallStep \/ ReadCallStep \/ ReadReturnStep

SpecFiles == InitFiles /\ [][FilesNext]_vars

\* The call has returned to the caller
FileCallEnded == input.kind = "files" /\ pc \in {"returned", "failed"}

\* No file has been opened for writing
NothingOpenedForWriting == \A i \in 1..Len(fs.log) : fs.log[i][3] # "w"

\* The write goes to the path of an existing file without the flag
WriteToExisting ==
    /\ input.op = "write"
    /\ ~IsStream(input.dest)
    /\ input.dest.v \in input.exists
    /\ ~input.force

\* The read is given a patch and the path of the source as its destination
PatchOntoSource ==
    /\ input.op = "read"
    /\ ~IsNone(input.patch)
    /\ ~IsStream(input.src)
    /\ input.dest = input.src

\* C13: Namelist.write to an existing path without the overwrite flag, and
\* a patch whose destination path equals its source path, both raise before
\* any file is opened for writing: the failed call creates, truncates and
\* modifies no file.
C13_DestinationGuards ==
    (FileCallEnded /\ (WriteToExisting \/ PatchOntoSource)) =>
        /\ pc = "failed"
        /\ lastop.exc # ""
        /\ NothingOpenedForWriting
        /\ fs.files = InitialFiles(input)

\* One of the refusals has happened: the write to the existing b, or the patch
\* of a onto a
C13_Witness ==
    /\ FileCallEnded
    /\ \/ /\ WriteToExisting
          /\ input.dest = PathV("b")
          /\ lastop.exc = "IOError: File b already exists."
       \/ /\ PatchOntoSource
          /\ IsDict(input.patch)
          /\ "a" \in input.exists
          /\ StartsWith(lastop.exc, "ValueError: f90nml: error: Patch filepath")
    /\ fs.log = <<>>

\* C14: when a patch read returns or raises, every file that the parser
\* has opened is closed, and the streams of the caller are still open.
C14_HandlesClosed ==
    (FileCallEnded /\ input.op = "read" /\ ~IsNone(input.patch)) =>
        /\ \A h \in fs.handles : h.owner = "caller"
        /\ CallerHandles(input) \subseteq fs.handles

\* The source ends inside the group: the read has opened the patch file
\* a~ and the source a, has raised, and has closed both
C14_Witness ==
    /\ FileCallEnded
    /\ input.op = "read"
    /\ IsDict(input.patch)
    /\ pc = "failed"
    /\ lastop.exc = EofError
    /\ fs.log = << <<"open", "a~", "w">>, <<"open", "a", "r">>,
                   <<"close", "a", "r">>, <<"close", "a~", "w">> >>
    /\ fs.handles = {}
----------------------------------------------------------------------------
(* Scenario: a list of integers written under a column width               *)

MaxWidth == 16

WidthValues == {IntV(1), IntV(22), IntV(333)}

WidthInputs ==
    {[kind |-> "width", values |-> s, column_width |-> w] :
        s \in SeqsUpTo(WidthValues, MaxLen) \ {<<>>}, w \in 0..MaxWidth}

InitWidth ==
    /\ input \in WidthInputs
    /\ StartReader([NewReader("", EmptyNml, FALSE) EXCEPT !.pc = "write"])
    /\ output = ""
    /\ nml = Nml1("g", Nml1("x", ListV(input.values)))
    /\ lastop = NoneV
    /\ merged = NoneV
    /\ fs = NoFiles

\* nml.column_width = w; nml.write(stream)
WidthWriteStep ==
    /\ pc = "write"
    /\ input.kind = "width"
    /\ output' = WriteStream([DefaultFormat EXCEPT !.column_width = input.column_width],
                             nml).text
    /\ pc' = "done"
    /\ UNCHANGED <<parser, nmls, nml_patch, g_name, g_vars, grp_patch, input,
                   nml, lastop, merged, fs>>

SpecWidth == InitWidth /\ [][WidthWriteStep]_vars

\* The header of the variable x of the group
WidthHeader == DefaultFormat.indent \o "x = "

\* The lines of the variable: all but the group opener and the terminator,
\* without the newline
VarLines(text) ==
    [i \in 1..(Len(SplitLines(text, "")) - 2) |->
        SubSeq(SplitLines(text, "")[i + 1], 1, Len(SplitLines(text, "")[i + 1]) - 1)]

\* The line carries one value token: no comma but a final one
SingleToken(line) ==
    \A i \in 1..(Len(line) - 1) : SubSeq(line, i, i) # ","

\* The line starts with the header's width of blanks, and a value follows
Continuation(line) ==
    /\ StartsWith(line, Spaces(Len(WidthHeader)))
    /\ Len(line) > Len(WidthHeader)
    /\ SubSeq(line, Len(WidthHeader) + 1, Len(WidthHeader) + 1) # " "

WidthWritten == input.kind = "width" /\ pc = "done"

\* C15: no line of a serialized list is longer than column_width unless it
\* carries a single value token, and every continuation line is indented
\* to the width of the header.
C15_ColumnLimit ==
    WidthWritten =>
        \A i \in 1..Len(VarLines(output)) :
            /\ Len(VarLines(output)[i]) <= input.column_width
                   \/ SingleToken(VarLines(output)[i])
            /\ i = 1 \/ Continuation(VarLines(output)[i])
----------------------------------------------------------------------------
(* Scenario: string literals in one value list, with and without commas    *)
(* between them                                                            *)

MaxLits == 3

\* The literals with the strings they denote
StringLiterals ==
    {[text |-> "'ab'", value |-> "ab"], [text |-> "\"cd\"", value |-> "cd"],
     [text |-> "'e''f'", value |-> "e'f"]}

\* What stands between two literals: a blank, a comma, a line break
StringSeps == {" ", ", ", "\n "}

StringInputs ==
    {[kind |-> "strings", lits |-> l, seps |-> s, tail |-> tl] :
        l \in SeqsUpTo(StringLiterals, MaxLits) \ {<<>>},
        s \in [1..(MaxLits - 1) -> StringSeps],
        tl \in {"/", "t = 1 /"}}

RECURSIVE StringList(_, _, _)
\* The literals from the i-th on, each followed by its separator
StringList(lits, seps, i) ==
    IF i > Len(lits) THEN ""
    ELSE lits[i].text \o (IF i < Len(lits) THEN seps[i] ELSE "")
         \o StringList(lits, seps, i + 1)

StringsText(in) == "&g s = " \o StringList(in.lits, in.seps, 1) \o " " \o in.tail \o "\n"

InitStrings ==
    /\ input \in {in \in StringInputs :
                    \A i \in Len(in.lits)..(MaxLits - 1) : in.seps[i] = " "}
    /\ StartReader(NewReader(StringsText(input), EmptyNml, FALSE))
    /\ output = ""
    /\ nml = EmptyNml
    /\ lastop = NoneV
    /\ merged = NoneV
    /\ fs = NoFiles

SpecStrings == InitStrings /\ [][ReadNext]_vars

StringsRead == input.kind = "strings" /\ pc \in {"done", "raised"}

\* The variable s of group g in the result
StringVar == NmlGetItem(NmlGetItem(nmls, "g"), "s")

RECURSIVE Concatenated(_, _, _, _)
\* The values when literals with no comma between them are one string:
\* acc is the string of the literals since the last comma
Concatenated(lits, seps, i, acc) ==
    IF i > Len(lits) THEN <<StrV(acc)>>
    ELSE IF seps[i - 1] = ", "
    THEN <<StrV(acc)>> \o Concatenated(lits, seps, i + 1, lits[i].value)
    ELSE Concatenated(lits, seps, i + 1, acc \o lits[i].value)

\* C16: string literals of a value list are separate values whether or
\* not a comma stands between them (s = 'ab' 'cd' yields ['ab', 'cd']); a
\* doubled delimiter inside a literal denotes one delimiter character.
C16_AdjacentStrings ==
    StringsRead =>
        /\ pc = "done"
        /\ StringVar = delist(ListV([i \in 1..Len(input.lits) |->
                                         StrV(input.lits[i].value)]))

\* Two literals with a blank between them are read as two values
C16_Witness ==
    /\ StringsRead
    /\ StringsText(input) = "&g s = 'ab' \"cd\" /\n"
    /\ StringVar = ListV(<<StrV("ab"), StrV("cd")>>)

\* C16 as stated: consecutive literals that no comma separates are
\* concatenated into one string value.
C16_Original ==
    StringsRead =>
        StringVar = delist(ListV(Concatenated(input.lits, input.seps, 2,
                                              input.lits[1].value)))
----------------------------------------------------------------------------
(* Scenario: a group of assignments to v and w, with and without index     *)

MaxAssign == 2

\* The left sides, and the value lists with the values they denote
CollapseHeads == {"v", "v(1)", "v(2)", "w"}

CollapseValues ==
    {[text |-> "", vals |-> <<>>], [text |-> "5", vals |-> <<IntV(5)>>],
     [text |-> "5, 6", vals |-> <<IntV(5), IntV(6)>>]}

CollapseAssigns == {[head |-> h, value |-> v] : h \in CollapseHeads, v \in CollapseValues}

CollapseInputs ==
    {[kind |-> "collapse", assigns |-> a] :
        a \in SeqsUpTo(CollapseAssigns, MaxAssign) \ {<<>>}}

RECURSIVE AssignsText(_)
AssignsText(a) ==
    IF a = <<>> THEN ""
    ELSE a[1].head \o " = " \o a[1].value.text \o " " \o AssignsText(Tail(a))

CollapseText(in) == "&g " \o AssignsText(in.assigns) \o "/\n"

InitCollapse ==
    /\ input \in CollapseInputs
    /\ StartReader(NewReader(CollapseText(input), EmptyNml, FALSE))
    /\ output = ""
    /\ nml = EmptyNml
    /\ lastop = NoneV
    /\ merged = NoneV
    /\ fs = NoFiles

SpecCollapse == InitCollapse /\ [][ReadNext]_vars

\* The assignments of the input to the variable name
AssignsTo(in, name) ==
    SelectSeq(in.assigns, LAMBDA a : SubSeq(a.head, 1, 1) = name)

\* One of the assignments carries an index
Indexed(as) == \E i \in 1..Len(as) : Len(as[i].head) > 1

\* The values new laid over the values prev: a later null keeps the value
Overlay(prev, new) ==
    [i \in 1..Max2(Len(prev), Len(new)) |->
        IF i <= Len(new) /\ ~IsNone(new[i]) THEN new[i]
        ELSE IF i <= Len(prev) THEN prev[i]
        ELSE NoneV]

RECURSIVE ValueList(_, _)
\* The value list that the assignments as give, laid over acc
ValueList(as, acc) ==
    IF as = <<>> THEN acc
    ELSE ValueList(Tail(as), Overlay(acc, as[1].value.vals))

\* The collapsed value of a list
Collapsed(vals) ==
    IF vals = <<>> THEN NoneV
    ELSE IF Len(vals) = 1 THEN vals[1]
    ELSE ListV(vals)

CollapseRead == input.kind = "collapse" /\ pc \in {"done", "raised"}

\* The variables of group g in the result
CollapseGroup == NmlGetItem(nmls, "g")

\* The variable name of the group holds what the collapse rule says
CollapseRule(g, as, name) ==
    as # <<>> =>
        /\ NmlContains(g, name)
        /\ IF Indexed(as) THEN IsList(NmlGetItem(g, name))
           ELSE NmlGetItem(g, name) = Collapsed(ValueList(as, <<>>))

\* C17: after the assignments of a group, a variable that was never given
\* an index holds null when its value list is empty, the element when the
\* list has one element and the list otherwise; a variable that was given
\* an index holds a list, also after assignments to other variables. The
\* same holds between the assignments for the variables read so far.
C17_Collapse ==
    /\ CollapseRead =>
        /\ pc = "done"
        /\ \A name \in {"v", "w"} :
              CollapseRule(CollapseGroup, AssignsTo(input, name), name)
    /\ (input.kind = "collapse" /\ pc = "group") =>
          \A i \in 1..Len(g_vars.keys) :
              IF g_vars.keys[i] \in DOMAIN g_vars.start_index
              THEN IsList(g_vars.vals[i])
              ELSE ~(IsList(g_vars.vals[i]) /\ Len(g_vars.vals[i].v) < 2)

\* v(1) = 5 is followed by w = 5: v is the list [5] and w is 5
C17_Witness ==
    /\ CollapseRead
    /\ CollapseText(input) = "&g v(1) = 5 w = 5 /\n"
    /\ NmlGetItem(CollapseGroup, "v") = ListV(<<IntV(5)>>)
    /\ NmlGetItem(CollapseGroup, "w") = IntV(5)
----------------------------------------------------------------------------
(* Scenario: a value list of elements with and without repeat counts       *)

MaxElems == 3

\* The elements with the values they contribute: a value, a null, and
\* repeat counts before a value and before nothing
RepeatElems ==
    {[text |-> "3", vals |-> <<IntV(3)>>],
     [text |-> "", vals |-> <<NoneV>>],
     [text |-> "2*4", vals |-> <<IntV(4), IntV(4)>>],
     [text |-> "2*", vals |-> <<NoneV, NoneV>>],
     [text |-> "0*4", vals |-> <<>>]}

\* The lists of elements; the last element is not the empty one, which
\* contributes nothing before the end of the list
RepeatInputs ==
    {[kind |-> "repeat", elems |-> e, tail |-> tl] :
        e \in {s \in SeqsUpTo(RepeatElems, MaxElems) :
                   s # <<>> /\ s[Len(s)].text # ""},
        tl \in {"/", "w = 1 /"}}

RECURSIVE ElemsText(_)
\* The elements separated by commas
ElemsText(e) ==
    IF Len(e) = 1 THEN e[1].text
    ELSE e[1].text \o ", " \o ElemsText(Tail(e))

RepeatText(in) == "&g v = " \o ElemsText(in.elems) \o " " \o in.tail \o "\n"

InitRepeat ==
    /\ input \in RepeatInputs
    /\ StartReader(NewReader(RepeatText(input), EmptyNml, FALSE))
    /\ output = ""
    /\ nml = EmptyNml
    /\ lastop = NoneV
    /\ merged = NoneV
    /\ fs = NoFiles

SpecRepeat == InitRepeat /\ [][ReadNext]_vars

RECURSIVE Contributed(_)
\* The values of the elements in their order
Contributed(e) == IF e = <<>> THEN <<>> ELSE e[1].vals \o Contributed(Tail(e))

RepeatRead == input.kind = "repeat" /\ pc \in {"done", "raised"}

\* The variable v of group g in the result
RepeatVar == NmlGetItem(NmlGetItem(nmls, "g"), "v")

\* C18: N*value contributes N copies of the value, and N* followed by a
\* comma, the terminator or the next assignment contributes N nulls; the
\* values of the list keep the order of the elements and the factor counts
\* for its own element only.
C18_RepeatCounts ==
    RepeatRead =>
        /\ pc = "done"
        /\ RepeatVar = delist(ListV(Contributed(input.elems)))
        /\ input.tail # "/" => NmlGetItem(NmlGetItem(nmls, "g"), "w") = IntV(1)

\* 3, 2*4, 2* before the next assignment: one 3, two 4, two nulls
C18_Witness ==
    /\ RepeatRead
    /\ RepeatText(input) = "&g v = 3, 2*4, 2* w = 1 /\n"
    /\ RepeatVar = ListV(<<IntV(3), IntV(4), IntV(4), NoneV, NoneV>>)
----------------------------------------------------------------------------
(* Scenario: an indexed assignment with a bounded range and more values    *)
(* than the range holds                                                    *)

MaxExcess == 2
MaxRange == 2

\* The first indices of the ranges
ExcessStarts == -2..1

ExcessInputs ==
    {[kind |-> "excess", start |-> s, size |-> n, count |-> c, tail |-> tl] :
        s \in ExcessStarts, n \in 1..MaxRange, c \in 1..(MaxRange + MaxExcess),
        tl \in {"/", "w = 9 /", "/\n&h x = 9 /"}}

RECURSIVE CountedValues(_, _)
\* The values i, i + 1, ..., c separated by commas
CountedValues(i, c) ==
    IF i > c THEN ""
    ELSE IntToStr(i) \o (IF i < c THEN ", " ELSE "") \o CountedValues(i + 1, c)

\* v(start:end) = 1, 2, ..., count
ExcessText(in) ==
    "&g v(" \o IntToStr(in.start) \o ":" \o IntToStr(in.start + in.size - 1)
    \o ") = " \o CountedValues(1, in.count) \o " " \o in.tail \o "\n"

InitExcess ==
    /\ input \in {in \in ExcessInputs : in.count <= in.size + MaxExcess}
    /\ StartReader(NewReader(ExcessText(input), EmptyNml, FALSE))
    /\ output = ""
    /\ nml = EmptyNml
    /\ lastop = NoneV
    /\ merged = NoneV
    /\ fs = NoFiles

SpecExcess == InitExcess /\ [][ReadNext]_vars

ExcessRead == input.kind = "excess" /\ pc \in {"done", "raised"}

\* What follows the value list is read as if the list had ended in range
FollowingRead(in, n) ==
    CASE in.tail = "/" -> n.keys = <<"g">> /\ NmlGetItem(n, "g").keys = <<"v">>
      [] in.tail = "w = 9 /" ->
            /\ n.keys = <<"g">>
            /\ NmlGetItem(n, "g").keys = <<"v", "w">>
            /\ NmlGetItem(NmlGetItem(n, "g"), "w") = IntV(9)
      [] OTHER ->
            /\ n.keys = <<"g", "h">>
            /\ NmlGetItem(n, "g").keys = <<"v">>
            /\ NmlGetItem(n, "h") = Nml1("x", IntV(9))

\* C19: when the assignment to a bounded range supplies more values than
\* the range has indices, the read raises nothing, the values beyond the
\* range are dropped with a warning, the array holds the values in range at
\* their indices, and what follows is read as if they were absent.
C19_ExcessDropped ==
    ExcessRead =>
        /\ pc = "done"
        /\ NmlGetItem(NmlGetItem(nmls, "g"), "v")
               = ListV([i \in 1..Min2(input.count, input.size) |-> IntV(i)])
        /\ NmlGetItem(nmls, "g").start_index["v"] = <<IntV(input.start)>>
        /\ parser.warned = (input.count > input.size)
        /\ FollowingRead(input, nmls)
----------------------------------------------------------------------------
(* Scenario: assignments to one variable with different first indices,     *)
(* with and without index, under a chosen default_start_index              *)

MaxSeq == 2
MaxFirst == 3

\* The first index of an assignment; None stands for the assignment
\* without index
StartChoices == {NoneV} \cup {IntV(s) : s \in 0..MaxFirst}

StartInputs ==
    {[kind |-> "starts", d |-> d, firsts |-> f] :
        d \in {0, 1, 2}, f \in SeqsUpTo(StartChoices, MaxSeq) \ {<<>>}}

RECURSIVE StartsText(_, _)
\* The k-th assignment gives the value k to v or to v(s)
StartsText(f, k) ==
    IF k > Len(f) THEN ""
    ELSE (IF IsNone(f[k]) THEN "v" ELSE "v(" \o IntToStr(f[k].v) \o ")")
         \o " = " \o IntToStr(k) \o " " \o StartsText(f, k + 1)

StartsSource(in) == "&g " \o StartsText(in.firsts, 1) \o "/\n"

InitStarts ==
    /\ input \in StartInputs
    /\ StartReader(SetDefaultStartIndex(
           NewReader(StartsSource(input), EmptyNml, FALSE), input.d))
    /\ output = ""
    /\ nml = EmptyNml
    /\ lastop = NoneV
    /\ merged = NoneV
    /\ fs = NoFiles

SpecStarts == InitStarts /\ [][ReadNext]_vars

\* The start that the k-th assignment shows: its index, or the default
Observed(in, k) == IF IsNone(in.firsts[k]) THEN in.d ELSE in.firsts[k].v

\* The least and the greatest start observed
LeastStart(in) ==
    CHOOSE s \in {Observed(in, k) : k \in 1..Len(in.firsts)} :
        \A k \in 1..Len(in.firsts) : s <= Observed(in, k)

GreatestStart(in) ==
    CHOOSE s \in {Observed(in, k) : k \in 1..Len(in.firsts)} :
        \A k \in 1..Len(in.firsts) : s >= Observed(in, k)

\* The value at index i: that of the last assignment to i, else null
AssignedAt(in, i) ==
    IF \E k \in 1..Len(in.firsts) : Observed(in, k) = i
    THEN IntV(CHOOSE k \in 1..Len(in.firsts) :
                  /\ Observed(in, k) = i
                  /\ \A j \in (k + 1)..Len(in.firsts) : Observed(in, j) # i)
    ELSE NoneV

StartsRead ==
    /\ input.kind = "starts"
    /\ pc \in {"done", "raised"}
    /\ \E k \in 1..Len(input.firsts) : ~IsNone(input.firsts[k])

\* C20: after the assignments to v the start index recorded for v is the
\* least start observed, the index of an indexed assignment and the default
\* start index of an assignment without index, and the list begins at that
\* index: every value is at the position of the index it was assigned to.
C20_StartReconciled ==
    StartsRead =>
        /\ pc = "done"
        /\ NmlGetItem(nmls, "g").start_index["v"] = <<IntV(LeastStart(input))>>
        /\ NmlGetItem(NmlGetItem(nmls, "g"), "v")
             = ListV([p \in 1..(GreatestStart(input) - LeastStart(input) + 1) |->
                         AssignedAt(input, LeastStart(input) + p - 1)])
----------------------------------------------------------------------------
(* Scenario: an FIndex is constructed from bounds and next() is called on  *)
(* it again and again                                                      *)

MaxRank == 3
MaxExtent == 3
MaxCalls == 12

\* The lower bounds: unset, below zero, and zero
FStarts == {NoneV, IntV(-2), IntV(0)}

\* The strides: unset, one and two
FSteps == {NoneV, IntV(1), IntV(2)}

\* start of a triplet as FIndex.__init__ reads it
StartOf(s) == IF IsNone(s) THEN 1 ELSE s.v

\* The triplets (start, end, stride) of one axis; end is exclusive and is
\* unset or up to MaxExtent above the start
FTriplets ==
    {<<s, IntV(StartOf(s) + n), st>> : s \in FStarts, n \in 0..MaxExtent, st \in FSteps}
    \cup {<<s, NoneV, st>> : s \in FStarts, st \in FSteps}

\* The triplets of the axes above the second
FOuterTriplets ==
    {<<NoneV, IntV(1 + n), NoneV>> : n \in 0..2}
    \cup {<<IntV(-2), IntV(0), NoneV>>, <<NoneV, NoneV, NoneV>>}

FBounds ==
    {<<a>> : a \in FTriplets}
    \cup {<<a, b>> : a \in FTriplets, b \in FTriplets}
    \cup (IF MaxRank >= 3
          THEN {<<a, b, c>> : a \in FTriplets, b \in FOuterTriplets,
                              c \in FOuterTriplets}
          ELSE {})

FIndexInputs == {[kind |-> "findex", bounds |-> b] : b \in FBounds}

\* The iterator, the tuples it has returned, and the calls that raised
\* StopIteration
Iterated(f, returned, stops, after_stop) ==
    [t |-> "iter", f |-> f, returned |-> returned, stops |-> stops,
     after_stop |-> after_stop]

InitFIndex ==
    /\ input \in FIndexInputs
    /\ StartReader([NewReader("", EmptyNml, FALSE) EXCEPT !.pc = "api"])
    /\ output = ""
    /\ nml = EmptyNml
    /\ lastop = Iterated(NewFIndex(input.bounds, NoneV), <<>>, 0, 0)
    /\ merged = NoneV
    /\ fs = NoFiles

\* next(fidx): StopIteration, or the current tuple is returned and the
\* iterator advances
FIndexNextStep ==
    /\ pc = "api"
    /\ input.kind = "findex"
    /\ Len(lastop.returned) + lastop.stops < MaxCalls
    /\ lastop' = IF FIndexStop(lastop.f)
                 THEN Iterated(lastop.f, lastop.returned, lastop.stops + 1,
                               lastop.after_stop)
                 ELSE Iterated(FIndexNext(lastop.f),
                               Append(lastop.returned, lastop.f.current),
                               lastop.stops,
                               lastop.after_stop + (IF lastop.stops > 0 THEN 1 ELSE 0))
    /\ UNCHANGED <<pc, parser, nmls, nml_patch, g_name, g_vars, grp_patch,
                   input, output, nml, merged, fs>>

SpecFIndex == InitFIndex /\ [][FIndexNextStep]_vars

FIndexRun == input.kind = "findex"

\* The axes of the running iterator
Axes == 1..Len(input.bounds)

\* start and stride of axis i, 1 when unset
AxisStart(i) == StartOf(input.bounds[i][1])
AxisStep(i) == StartOf(input.bounds[i][3])

\* The exclusive end of axis i is set
AxisBounded(i) == ~IsNone(input.bounds[i][2])

\* The last index of the range of axis i
AxisLast(i) == input.bounds[i][2].v - 1

\* Axis i has run through its range at cursor x
AxisExhausted(i, x) == AxisBounded(i) /\ x >= AxisLast(i)

\* Tuple b follows tuple a with axis r advancing: the axes before r have run
\* through their ranges and are back at their starts, axis r has moved on
\* by its stride, the axes after r have not moved
Advances(a, b, r) ==
    /\ \A i \in Axes : i < r => AxisExhausted(i, a[i]) /\ b[i] = AxisStart(i)
    /\ r = Len(a) \/ ~AxisExhausted(r, a[r])
    /\ b[r] = a[r] + AxisStep(r)
    /\ \A i \in Axes : i > r => b[i] = a[i]

\* The stride of axis i lands on the last index of its range
AxisAligned(i) ==
    /\ AxisBounded(i)
    /\ AxisLast(i) >= AxisStart(i)
    /\ (AxisLast(i) - AxisStart(i)) % AxisStep(i) = 0

\* The number of indices of the aligned axis i
AxisCount(i) == (AxisLast(i) - AxisStart(i)) \div AxisStep(i) + 1

RECURSIVE AxisPeriod(_)
\* The number of tuples after which axis i moves
AxisPeriod(i) == IF i = 1 THEN 1 ELSE AxisPeriod(i - 1) * AxisCount(i - 1)

\* Tuple number k of the column-major enumeration
ColumnMajor(k) ==
    [i \in Axes |->
        AxisStart(i) + AxisStep(i) *
            (IF i = Len(input.bounds)
             THEN (k - 1) \div AxisPeriod(i)
             ELSE ((k - 1) \div AxisPeriod(i)) % AxisCount(i))]

LastAxis == Len(input.bounds)
LastEnd == input.bounds[LastAxis][2].v

\* Every call of the run has been made
AllCalled == Len(lastop.returned) + lastop.stops = MaxCalls

\* C22: the iteration is finite exactly when the last axis has an end: no
\* call raises StopIteration when the end of the last axis is unset; when it
\* is set, whatever its value and whatever the bounds of the inner axes, no
\* tuple is returned once the cursor of the last axis has reached the end,
\* the calls come to raise StopIteration (the ranges of one and two axes of
\* the scenario hold fewer than MaxCalls tuples), and every call after a
\* StopIteration raises it again.
C22_Termination ==
    FIndexRun =>
        /\ ~AxisBounded(LastAxis) => lastop.stops = 0
        /\ lastop.after_stop = 0
        /\ AxisBounded(LastAxis) =>
              /\ \A k \in 1..Len(lastop.returned) :
                    lastop.returned[k][LastAxis] < LastEnd
              /\ (AllCalled /\ LastAxis <= 2) => lastop.stops > 0

\* C27: every tuple FIndex returns lies in the declared range on every axis
\* whose end is set: the coordinate is at least the start and below the
\* exclusive end, for one axis and for several, and for every stride of one
\* or more.
C27_InRange ==
    FIndexRun =>
        \A k \in 1..Len(lastop.returned) :
           \A i \in Axes :
              AxisBounded(i) =>
                 /\ AxisStart(i) <= lastop.returned[k][i]
                 /\ lastop.returned[k][i] < input.bounds[i][2].v
----------------------------------------------------------------------------
(* Scenario: one line is given to Tokenizer.parse                          *)

MaxParts == 3

\* A group start, names, numbers, signed IEEE values, a string,
\* punctuation, whitespace and a comment
LineParts ==
    {"&g", "ab", "12", "-1", "+inf", "-nan", "-infinity", "'s'", ",", "=", "/",
     " ", "!c"}

RECURSIVE PartLines(_)
\* The texts of up to n parts
PartLines(n) ==
    IF n = 0 THEN {""}
    ELSE PartLines(n - 1) \cup {l \o p : l \in PartLines(n - 1), p \in LineParts}

\* The lines, read by a tokenizer that is outside or inside a group
TokenInputs ==
    {[kind |-> "tokens", line |-> l \o "\n", group_token |-> g] :
        l \in PartLines(MaxParts), g \in {"None", "&"}}

\* The tokens returned, or the exception raised
Parsed(tokens, exc) == [t |-> "tokens", tokens |-> tokens, exc |-> exc, called |-> TRUE]

InitTokens ==
    /\ input \in TokenInputs
    /\ StartReader([NewReader("", EmptyNml, FALSE) EXCEPT !.pc = "api"])
    /\ output = ""
    /\ nml = EmptyNml
    /\ lastop = [t |-> "tokens", tokens |-> <<>>, exc |-> "", called |-> FALSE]
    /\ merged = NoneV
    /\ fs = NoFiles

\* The result of Tokenizer.parse as the caller sees it
ParsedOf(r) == Parsed(IF r.exc = "" THEN r.tokens ELSE <<>>, r.exc)

\* tokens = tokenizer.parse(line)
TokenizeStep ==
    /\ pc = "api"
    /\ input.kind = "tokens"
    /\ ~lastop.called
    /\ lastop' = ParsedOf(TokenizerParse(
                     [NewTokenizer EXCEPT !.group_token = input.group_token],
                     input.line))
    /\ UNCHANGED <<pc, parser, nmls, nml_patch, g_name, g_vars, grp_patch,
                   input, output, nml, merged, fs>>

SpecTokens == InitTokens /\ [][TokenizeStep]_vars

RECURSIVE Joined(_)
\* ''.join(tokens)
Joined(tokens) ==
    IF tokens = <<>> THEN "" ELSE Head(tokens) \o Joined(Tail(tokens))

Tokenized1 == input.kind = "tokens" /\ lastop.called

\* C23: Tokenizer.parse returns the tokens of the line, and the tokens put
\* together in order are the line without its final newline, for every line
\* made of names, numbers, signed IEEE values, strings, punctuation,
\* whitespace and comments.
C23_TokensCoverLine ==
    Tokenized1 =>
        /\ lastop.exc = ""
        /\ Joined(lastop.tokens) = SubSeq(input.line, 1, Len(input.line) - 1)
----------------------------------------------------------------------------
(* Scenario: a patch read of a group with a scalar, a list and a field of  *)
(* a derived type, followed by Parser.reads of the patch output            *)

\* The first variable of the source with its values
AgreeHeads == {"x = 1", "x = 1, 2, 3", "a%b = 1"}

\* The patches of group g: nothing, a scalar, lists, a new variable, and
\* fields of the derived type a
AgreePatches ==
    {EmptyNml,
     Nml1("g", Nml1("x", IntV(5))),
     Nml1("g", Nml1("x", ListV(<<IntV(5), IntV(6)>>))),
     Nml1("g", Nml1("z", IntV(9))),
     Nml1("g", Nml1("a", Nml1("b", IntV(7)))),
     Nml1("g", Nml1("a", Nml1("d", IntV(7))))}

AgreeInputs ==
    {[kind |-> "agree", head |-> h, tail |-> tl, patch |-> p] :
        h \in AgreeHeads, tl \in {"", " y = 2\n"}, p \in AgreePatches}

AgreeSource(in) == "&g\n " \o in.head \o "\n" \o in.tail \o "/\n"

InitAgree ==
    /\ input \in AgreeInputs
    /\ StartReader(NewReader(AgreeSource(input), input.patch, TRUE))
    /\ output = ""
    /\ nml = EmptyNml
    /\ lastop = NoneV
    /\ merged = NoneV
    /\ fs = NoFiles

\* The patch file is closed and parsed with Parser.reads; nml keeps the
\* Namelist that the patch read returned
AgreeRereadStep ==
    /\ pc = "done"
    /\ input.kind = "agree"
    /\ lastop = NoneV
    /\ lastop' = StrV("reread")
    /\ nml' = nmls
    /\ output' = parser.out
    /\ SetReader(NewReader(parser.out, EmptyNml, FALSE))
    /\ UNCHANGED <<input, merged, fs>>

AgreeNext == ReadNext \/ AgreeRereadStep

SpecAgree == InitAgree /\ [][AgreeNext]_vars

\* The patch read has returned and its output has been read again
AgreeReread ==
    input.kind = "agree" /\ lastop = StrV("reread") /\ pc \in {"done", "raised"}

\* C24: the Namelist that a patch read returns equals the Namelist that
\* parsing the patch output of the same call gives, for patches with
\* scalars, with lists shorter or longer than the list of the source, and
\* with fields of a derived type.
C24_PatchAgrees ==
    AgreeReread => (pc = "done" /\ PyEq(nml, nmls))
----------------------------------------------------------------------------
(* Scenario: one Parser reads a file, with or without a patch, and is then *)
(* used for a plain read or reads                                          *)

\* The patch of the first call: none, empty, one value, and no dict
ReusePatches == {NoneV, EmptyNml, Nml1("g", Nml1("x", IntV(5))), ListV(<<IntV(5)>>)}

\* The patch destination of the first call
ReuseDests == {NoneV, PathV("b"), StreamV("P")}

\* The source of the first call: complete, and ending inside the group
ReuseTexts == {"&g x = 1 /\n", "&g x = 1\n"}

\* The text of the second call: a group, nothing, and an unfinished group
ReuseTexts2 == {"&h y = 2 /\n", "", "&h y = 2\n"}

ReuseInputs ==
    {[kind |-> "reuse", patch |-> p, dest |-> d, text |-> t, op |-> o, text2 |-> t2] :
        p \in ReusePatches, d \in ReuseDests, t \in ReuseTexts,
        o \in {"read", "reads"}, t2 \in ReuseTexts2}

\* The Parser object between the calls: self.pfile, the number of calls
\* that have ended, the exception of the last call, and the files and the
\* text of the caller's stream when the first call ended
ParserObject(pfile, calls, exc, files, out) ==
    [t |-> "parser", pfile |-> pfile, calls |-> calls, exc |-> exc,
     files |-> files, out |-> out]

\* The stream that the caller has opened for the patch
ReuseHandles(in) ==
    IF ~IsNone(in.dest) /\ IsStream(in.dest)
    THEN {Handle(in.dest.v, "w", "caller")} ELSE {}

InitReuse ==
    /\ input \in ReuseInputs
    /\ StartReader([NewReader("", EmptyNml, FALSE) EXCEPT !.pc = "call"])
    /\ output = ""
    /\ nml = EmptyNml
    /\ lastop = ParserObject(NoneV, 0, "", <<>>, "")
    /\ merged = NoneV
    /\ fs = FileSystem([p \in {"a", "c"} |-> IF p = "a" THEN input.text ELSE input.text2],
                       ReuseHandles(input), <<>>)

\* Parser.read, lines 272-275: self.pfile is assigned when a patch is given
\* and its destination is accepted
PfileAssigned(pfile, d) == IF d.exc = "" /\ ~IsNone(d.dest) THEN d.dest ELSE pfile

\* parser.read('a', patch, dest) up to the first step of _readstream
ReuseFirstOf(c, d) ==
    /\ fs' = c.fs
    /\ IF c.exc # ""
       THEN /\ lastop' = ParserObject(PfileAssigned(lastop.pfile, d), 1, c.exc,
                                      c.fs.files, output)
            /\ UNCHANGED <<pc, parser, nmls, nml_patch, g_name, g_vars, grp_patch>>
       ELSE /\ SetReader(c.R)
            /\ lastop' = [lastop EXCEPT !.pfile = PfileAssigned(lastop.pfile, d)]
    /\ UNCHANGED <<input, output, nml, merged>>

ReuseFirstStep ==
    /\ pc = "call"
    /\ input.kind = "reuse"
    /\ lastop.calls = 0
    /\ ReuseFirstOf(ParserRead(fs, PathV("a"), input.patch, input.dest, input.text),
                    PatchDestination(PathV("a"), input.patch, input.dest))

\* The text of the caller's stream after the reader has written out to it
StreamText(pfile, text, out) ==
    IF ~IsNone(pfile) /\ IsStream(pfile) THEN text \o out ELSE text

\* The first call has returned or raised: the finally clauses of Parser.read
ReuseFirstEnd(f) ==
    /\ fs' = f
    /\ output' = StreamText(lastop.pfile, output, parser.out)
    /\ lastop' = ParserObject(lastop.pfile, 1, parser.exc, f.files,
                              StreamText(lastop.pfile, output, parser.out))
    /\ merged' = IF pc = "done" THEN nmls ELSE merged
    /\ pc' = "call"
    /\ UNCHANGED <<parser, nmls, nml_patch, g_name, g_vars, grp_patch, input, nml>>

ReuseFirstReturnStep ==
    /\ pc \in {"done", "raised"}
    /\ input.kind = "reuse"
    /\ lastop.calls = 0
    /\ ReuseFirstEnd(ReadFinally(fs, PathV("a"), input.patch, input.dest, parser.out))

\* self.pfile is a file object that can be written to
PfileOpen(f, pfile) ==
    /\ ~IsNone(pfile)
    /\ IsStream(pfile)
    /\ Handle(pfile.v, "w", "caller") \in f.handles

ClosedFile == "ValueError: I/O operation on closed file."

\* The parser keeps token and prior_token of its last read
KeptTokens(R, M) == [R EXCEPT !.M.token = M.token, !.M.prior_token = M.prior_token]

\* _readstream of a Parser whose self.pfile is left from an earlier read:
\* the first _update_tokens that has a token writes to self.pfile, which
\* raises ValueError when the file is closed
ReusedReader(R, f, pfile) ==
    IF ~IsNone(pfile) /\ ~PfileOpen(f, pfile) /\ R.pc = "first" /\ R.M.tokens # <<>>
    THEN Raised(R, Raise(R.M, ClosedFile))
    ELSE R

\* The source of the second call is opened by read; reads is given the text
SecondOpened(f, op) == IF op = "read" THEN SourceOpened(f, PathV("c")).fs ELSE f

\* parser.read('c') or parser.reads(text2) on the used parser
ReuseSecondStep ==
    /\ pc = "call"
    /\ input.kind = "reuse"
    /\ lastop.calls = 1
    /\ fs' = SecondOpened(fs, input.op)
    /\ SetReader(ReusedReader(
           KeptTokens(NewReader(input.text2, EmptyNml, ~IsNone(lastop.pfile)), parser),
           fs, lastop.pfile))
    /\ UNCHANGED <<input, output, nml, lastop, merged>>

\* Parser.read, lines 289-291: self.pfile.close() when self.pfile is set and
\* patch_fname, here None, is no stream
PfileClosed(f, pfile) ==
    IF PfileOpen(f, pfile)
    THEN FileSystem(f.files, f.handles \ {Handle(pfile.v, "w", "caller")},
                    Append(f.log, <<"close", pfile.v, "w">>))
    ELSE f

\* The finally clauses of the second call; reads has none
SecondClosed(f, op, pfile) ==
    IF op = "read" THEN PfileClosed(SourceClosed(f, PathV("c")), pfile) ELSE f

\* The second call has returned or raised
ReuseSecondReturnStep ==
    /\ pc \in {"done", "raised"}
    /\ input.kind = "reuse"
    /\ lastop.calls = 1
    /\ fs' = SecondClosed(fs, input.op, lastop.pfile)
    /\ output' = IF PfileOpen(fs, lastop.pfile) THEN output \o parser.out ELSE output
    /\ lastop' = [lastop EXCEPT !.calls = 2, !.exc = parser.exc]
    /\ nml' = IF pc = "done" THEN nmls ELSE nml
    /\ pc' = IF pc = "done" THEN "returned" ELSE "failed"
    /\ UNCHANGED <<parser, nmls, nml_patch, g_name, g_vars, grp_patch, input, merged>>

ReuseNext ==
    \/ ReadNext
    \/ ReuseFirstStep
    \/ ReuseFirstReturnStep
    \/ ReuseSecondStep
    \/ ReuseSecondReturnStep

SpecReuse == InitReuse /\ [][ReuseNext]_vars

\* Both calls have ended
Reused == input.kind = "reuse" /\ lastop.calls = 2

\* What a fresh Parser makes of the text of the second call
FreshRead == Reads(input.text2)

\* C25: a plain read or reads by a Parser that has made a patch read, which
\* returned or failed, does what a fresh Parser does: it fails exactly when
\* the fresh one fails, returns the same Namelist, writes nothing to the
\* patch destination of the earlier read and leaves the caller's stream
\* open.
C25_PlainReadIndependent ==
    Reused =>
        /\ lastop.exc = FreshRead.M.exc
        /\ pc = "returned" => PyEq(nml, FreshRead.nmls)
        /\ fs.files = lastop.files
        /\ output = lastop.out
        /\ ReuseHandles(input) \subseteq fs.handles
----------------------------------------------------------------------------
(* Scenario: assignments to one variable with and without index, with     *)
(* ranges that have no lower bound, under a chosen default_start_index     *)

MaxPlaced == 2

\* The left sides: no index, single indices, and ranges with and without a
\* lower bound
PlacedHeads == {"v", "v(0)", "v(2)", "v(:2)", "v(2:3)", "v(:)"}

\* The value lists
PlacedValues == {"7", "7, 8"}

PlacedAssigns == {h \o " = " \o x \o " " : h \in PlacedHeads, x \in PlacedValues}

OffsetInputs ==
    {[kind |-> "offsets", d |-> d, assigns |-> a] :
        d \in {0, 1, 2}, a \in SeqsUpTo(PlacedAssigns, MaxPlaced) \ {<<>>}}

OffsetsSource(in) == "&g " \o Join(in.assigns, "") \o "/\n"

InitOffsets ==
    /\ input \in OffsetInputs
    /\ StartReader(SetDefaultStartIndex(
           NewReader(OffsetsSource(input), EmptyNml, FALSE), input.d))
    /\ output = ""
    /\ nml = EmptyNml
    /\ lastop = NoneV
    /\ merged = NoneV
    /\ fs = NoFiles

SpecOffsets == InitOffsets /\ [][ReadNext]_vars

\* C26: whenever an indexed value is placed, its offset from the first
\* index of the axis is not negative, for every sequence of assignments to
\* a variable, with an indexed assignment after one without index, with
\* ranges without lower bound, and for every default_start_index; so no
\* placement fails with an IndexError.
C26_OffsetNotNegative ==
    input.kind = "offsets" =>
        /\ ~parser.below_first
        /\ parser.exc # "IndexError"
----------------------------------------------------------------------------
(* Scenario: add_cogroup, assignment and deletion by group name, and       *)
(* assignment and deletion through the list view of a repeated name        *)

MaxBookOps == 4

BookNames == {"g", "G", "h"}

BookInputs == {[kind |-> "books"]}

InitBooks ==
    /\ input \in BookInputs
    /\ StartReader([NewReader("", EmptyNml, FALSE) EXCEPT !.pc = "api"])
    /\ output = ""
    /\ nml = EmptyNml
    /\ lastop = [t |-> "op", op |-> "new", key |-> "", index |-> 0,
                 value |-> NoneV, before |-> EmptyNml, exc |-> "", count |-> 0]
    /\ merged = NoneV
    /\ fs = NoFiles

BooksReady == pc = "api" /\ input.kind = "books" /\ lastop.count < MaxBookOps

\* nml.add_cogroup(name, value)
BookAddStep ==
    /\ BooksReady
    /\ \E name \in BookNames :
         Operated("add", name, 0, StepValue(lastop.count + 1),
                  Outcome(AddCogroup(nml, name, StepValue(lastop.count + 1)),
                          "", NoneV))

\* nml[name] = value
BookSetStep ==
    /\ BooksReady
    /\ \E name \in BookNames :
         Operated("setname", name, 0, StepValue(lastop.count + 1),
                  OutcomeOf("set", nml, name, StepValue(lastop.count + 1)))

\* del nml[name]
BookDelStep ==
    /\ BooksReady
    /\ \E name \in BookNames :
         Operated("delname", name, 0, NoneV,
                  OutcomeOf("delete", nml, name, NoneV))

\* nml[name][index] = value for a repeated name
BookViewSetStep ==
    /\ BooksReady
    /\ \E name \in BookNames :
         /\ Lower(name) \in DOMAIN nml.cogroups
         /\ \E index \in ViewIndices(nml, name) :
              Operated("set", name, index, StepValue(lastop.count + 1),
                       CogroupSetItem(nml, Lower(name), index,
                                      StepValue(lastop.count + 1)))

\* del nml[name][index] for a repeated name
BookViewDelStep ==
    /\ BooksReady
    /\ \E name \in BookNames :
         /\ Lower(name) \in DOMAIN nml.cogroups
         /\ \E index \in ViewIndices(nml, name) :
              Operated("delete", name, index, NoneV,
                       CogroupDelItem(nml, Lower(name), index))

BooksNext ==
    BookAddStep \/ BookSetStep \/ BookDelStep \/ BookViewSetStep \/ BookViewDelStep

SpecBooks == InitBooks /\ [][BooksNext]_vars

\* The keys of the mapping that belong to the repeated name g: the internal
\* keys of g and the plain key g
StoredFor(n, g) ==
    SelectSeq(n.keys, LAMBDA k : k = g \/ StartsWith(k, "_grp_" \o g \o "_"))

\* The record of g lists the keys stored for g in mapping order, and the
\* view of g enumerates the same keys
Recorded(n, g) ==
    /\ n.cogroups[g] = StoredFor(n, g)
    /\ n.cogroups[g] = CogroupKeys(n, g)

\* add_cogroup(name, .) on before generated a key the mapping did not hold
FreshKey(before, lkey) ==
    ~DictHas(CreateLCogroup(before, lkey),
             NewCogroupKey(CreateLCogroup(before, lkey), lkey))

\* C28: after any sequence of add_cogroup, assignment by group name,
\* deletion by group name and assignment or deletion through a list view,
\* the record of every repeated name g holds exactly the keys stored in the
\* mapping for g, in mapping order, the view of g enumerates exactly these
\* keys, and add_cogroup generated a key that was not in the mapping.
C28_Bookkeeping ==
    input.kind = "books" =>
        /\ \A g \in DOMAIN nml.cogroups : Recorded(nml, g)
        /\ lastop.op = "add" => FreshKey(lastop.before, Lower(lastop.key))

----------------------------------------------------------------------------
(* The formatting properties of a Namelist and their setters               *)

\* The formatting properties the setters validate, as Namelist.__init__
\* sets them
Properties(column_width, indent, float_format, false_repr, true_repr) ==
    [column_width |-> column_width, indent |-> indent,
     float_format |-> float_format, false_repr |-> false_repr,
     true_repr |-> true_repr]

DefaultProperties ==
    Properties(DefaultFormat.column_width, DefaultFormat.indent, "",
               DefaultFormat.false_repr, DefaultFormat.true_repr)

\* The outcome of an assignment: the properties after it and the exception
Assigned(p, exc) == [p |-> p, exc |-> exc]

\* isinstance(value, int), which holds for a bool, and the integer
IsInt(value) == value.t \in {"int", "bool"}
AsInt(value) == IF value.t = "bool" THEN (IF value.v THEN 1 ELSE 0) ELSE value.v

\* column_width.setter
SetColumnWidth(p, width) ==
    IF IsInt(width)
    THEN IF AsInt(width) >= 0
         THEN Assigned([p EXCEPT !.column_width = AsInt(width)], "")
         ELSE Assigned(p, "ValueError")
    ELSE Assigned(p, "TypeError")

\* indent.setter
SetIndent(p, value) ==
    IF value.t = "str"
    THEN IF IsSpace(value.v) \/ Len(value.v) = 0
         THEN Assigned([p EXCEPT !.indent = value.v], "")
         ELSE Assigned(p, "ValueError")
    ELSE IF IsInt(value)
    THEN IF AsInt(value) >= 0
         THEN Assigned([p EXCEPT !.indent = Spaces(AsInt(value))], "")
         ELSE Assigned(p, "ValueError")
    ELSE Assigned(p, "TypeError")

\* s without its first character when that is one of chars
DropOne(s, chars) == IF s # "" /\ InStr(Char(s, 1), chars) THEN Tail(s) ELSE s

RECURSIVE DropDigits(_)
DropDigits(s) == IF s # "" /\ IsDigit(Char(s, 1)) THEN DropDigits(Tail(s)) ELSE s

\* s without a leading [[fill]align]
DropAlign(s) ==
    IF Len(s) >= 2 /\ InStr(Char(s, 2), "<>=^") THEN SubSeq(s, 3, Len(s))
    ELSE DropOne(s, "<>=^")

\* s without a leading [sign][z][#][0][width]
DropWidth(s) == DropDigits(DropOne(DropOne(DropOne(s, "+- "), "z"), "#"))

\* What follows [grouping]: [.precision][type], where the precision needs a
\* digit and the type n takes no grouping
SpecTail(s, grouped) ==
    IF s # "" /\ Char(s, 1) = "."
    THEN /\ Len(s) >= 2 /\ IsDigit(Char(s, 2))
         /\ DropOne(DropDigits(Tail(s)), IF grouped THEN "eEfFgG%" ELSE "eEfFgGn%") = ""
    ELSE DropOne(s, IF grouped THEN "eEfFgG%" ELSE "eEfFgGn%") = ""

\* '{0:{1}}'.format(1.23, value) raises no ValueError: value is a format
\* specification [[fill]align][sign][z][#][0][width][grouping][.precision][type]
\* of a float
FloatSpec(s) ==
    SpecTail(DropOne(DropWidth(DropAlign(s)), ",_"),
             DropOne(DropWidth(DropAlign(s)), ",_") # DropWidth(DropAlign(s)))

\* float_format.setter
SetFloatFormat(p, value) ==
    IF value.t = "str"
    THEN IF FloatSpec(value.v)
         THEN Assigned([p EXCEPT !.float_format = value.v], "")
         ELSE Assigned(p, "ValueError")
    ELSE Assigned(p, "TypeError")

\* false_repr.setter
SetFalseRepr(p, value) ==
    IF value.t = "str"
    THEN IF ~(StartsWith(Lower(value.v), "f") \/ StartsWith(Lower(value.v), ".f"))
         THEN Assigned(p, "ValueError")
         ELSE Assigned([p EXCEPT !.false_repr = value.v], "")
    ELSE Assigned(p, "TypeError")

\* true_repr.setter
SetTrueRepr(p, value) ==
    IF value.t = "str"
    THEN IF ~(StartsWith(Lower(value.v), "t") \/ StartsWith(Lower(value.v), ".t"))
         THEN Assigned(p, "ValueError")
         ELSE Assigned([p EXCEPT !.true_repr = value.v], "")
    ELSE Assigned(p, "TypeError")

\* self.true_repr = value[1] after self.false_repr = value[0]
ThenTrueRepr(r, value) == IF r.exc # "" THEN r ELSE SetTrueRepr(r.p, value)

\* logical_repr.setter
SetLogicalRepr(p, value) ==
    IF value.t # "list" THEN Assigned(p, "TypeError")
    ELSE IF Len(value.v) # 2 THEN Assigned(p, "ValueError")
    ELSE ThenTrueRepr(SetFalseRepr(p, value.v[1]), value.v[2])

\* setattr(nml, name, value)
SetProperty(p, name, value) ==
    CASE name = "column_width" -> SetColumnWidth(p, value)
      [] name = "indent" -> SetIndent(p, value)
      [] name = "float_format" -> SetFloatFormat(p, value)
      [] name = "false_repr" -> SetFalseRepr(p, value)
      [] name = "true_repr" -> SetTrueRepr(p, value)
      [] name = "logical_repr" -> SetLogicalRepr(p, value)

----------------------------------------------------------------------------
(* Scenario: values of every kind are assigned to the formatting           *)
(* properties of a Namelist                                                *)

MaxAssigns == 2

PropertyNames ==
    {"column_width", "indent", "float_format", "false_repr", "true_repr",
     "logical_repr"}

\* Spellings with and without the letter a logical spelling starts with
Spellings == {StrV("F"), StrV(".t."), StrV("x"), IntV(1)}

PropertyValues ==
    {NoneV, IntV(-1), IntV(0), IntV(3), BoolV(TRUE),
     StrV(""), StrV(" "), StrV("x"), StrV("F"), StrV(".t."), StrV(".3f"),
     StrV(",n"), ListV(<<>>), ListV(<<StrV("F"), StrV(".t."), StrV(".t.")>>)}
    \cup {ListV(<<f, t>>) : f \in Spellings, t \in Spellings}

PropertyInputs == {[kind |-> "props"]}

\* The properties, the assignment made last and its outcome
PropertyOp(p, name, value, before, exc, count) ==
    [t |-> "prop", p |-> p, name |-> name, value |-> value, before |-> before,
     exc |-> exc, count |-> count]

InitProps ==
    /\ input \in PropertyInputs
    /\ StartReader([NewReader("", EmptyNml, FALSE) EXCEPT !.pc = "api"])
    /\ output = ""
    /\ nml = EmptyNml
    /\ lastop = PropertyOp(DefaultProperties, "", NoneV, DefaultProperties, "", 0)
    /\ merged = NoneV
    /\ fs = NoFiles

\* nml.name = value
SetPropertyStep ==
    /\ pc = "api" /\ input.kind = "props" /\ lastop.count < MaxAssigns
    /\ \E name \in PropertyNames, value \in PropertyValues :
         lastop' = PropertyOp(SetProperty(lastop.p, name, value).p, name, value,
                              lastop.p, SetProperty(lastop.p, name, value).exc,
                              lastop.count + 1)
    /\ UNCHANGED <<pc, parser, nmls, nml_patch, g_name, g_vars, grp_patch,
                   input, output, nml, merged, fs>>

SpecProps == InitProps /\ [][SetPropertyStep]_vars

\* C29: an assignment to a formatting property that raises leaves every
\* formatting property at the value it had before the assignment.
C29_FailedAssignment ==
    (input.kind = "props" /\ lastop.exc # "") => lastop.p = lastop.before

----------------------------------------------------------------------------
(* Scenario: a patch read of a source in which the name of a patched group *)
(* occurs more than once                                                   *)

MaxLater == 1

\* The variables of a source group, as text and as the Namelist read
RepeatedBodies == {"", "x = 1 "}
BodyNml(body) == IF body = "" THEN EmptyNml ELSE Nml1("x", IntV(1))

SourceGroup(name, body) == [name |-> name, body |-> body]

\* The first occurrence of g, and the occurrences after it
FirstGroups == {SourceGroup("g", ""), SourceGroup("g", "x = 1 "), SourceGroup("G", "x = 1 ")}
LaterGroups == {SourceGroup(n, b) : n \in {"g", "G"}, b \in RepeatedBodies}

\* No group or the group h, before the first g and after it
OtherGroups == {<<>>, <<SourceGroup("h", "")>>}

\* The patches of group g: a variable of the source, a new variable, both
GroupPatches ==
    {Nml1("x", IntV(7)), Nml1("z", IntV(7)), Nml2("z", IntV(7), "x", IntV(8))}

\* The patch of g alone, after a group k the source has not, and before a
\* patch of h
RepeatedPatches ==
    {Nml1("g", p) : p \in GroupPatches}
    \cup {Nml2("k", Nml1("x", IntV(9)), "g", p) : p \in GroupPatches}
    \cup {Nml2("g", p, "h", Nml1("y", IntV(9))) : p \in GroupPatches}

\* The sources in which g occurs from 2 to 1 + MaxLater times
RepeatedSources ==
    {before \o <<first>> \o between \o later :
        before \in OtherGroups, first \in FirstGroups, between \in OtherGroups,
        later \in UNION {[1..n -> LaterGroups] : n \in 1..MaxLater}}

RepeatedInputs ==
    {[kind |-> "repeated", groups |-> gs, patch |-> p] :
        gs \in RepeatedSources, p \in RepeatedPatches}

\* The text of one group of the source
GroupText(g) == "&" \o g.name \o " " \o g.body \o "/\n"

RECURSIVE GroupsText(_)
GroupsText(groups) ==
    IF groups = <<>> THEN ""
    ELSE GroupText(Head(groups)) \o GroupsText(Tail(groups))

InitRepeated ==
    /\ input \in RepeatedInputs
    /\ StartReader(NewReader(GroupsText(input.groups), input.patch, TRUE))
    /\ output = ""
    /\ nml = EmptyNml
    /\ lastop = NoneV
    /\ merged = NoneV
    /\ fs = NoFiles

SpecRepeated == InitRepeated /\ [][ReadNext]_vars

RepeatedRead == input.kind = "repeated" /\ pc \in {"done", "raised"}

\* The variables of body with the value of the patch p in place
Substituted(body, p) ==
    IF body # "" /\ DictHas(p, "x")
    THEN "x = " \o IntToStr(DictGet(p, "x").v) \o " "
    ELSE body

\* The variables of p that body does not assign
Remaining(body, p) == IF body # "" /\ DictHas(p, "x") THEN DictDel(p, "x") ELSE p

RECURSIVE VarLinesOf(_, _)
\* One indented line for each variable of p from position i
VarLinesOf(p, i) ==
    IF i > Len(p.keys) THEN ""
    ELSE "    " \o p.keys[i] \o " = " \o IntToStr(p.vals[i].v) \o "\n"
         \o VarLinesOf(p, i + 1)

\* The first occurrence of a patched group: the values of the patch in
\* place of the values of the source, the other variables of the patch
\* before the terminator
PatchedText(g, p) ==
    "&" \o g.name \o " " \o Substituted(g.body, p)
    \o VarLinesOf(Remaining(g.body, p), 1) \o "/\n"

RECURSIVE AppendedText(_, _)
\* The groups left in the patch, each after an empty line
AppendedText(patch, i) ==
    IF i > Len(patch.keys) THEN ""
    ELSE "\n&" \o patch.keys[i] \o "\n" \o VarLinesOf(patch.vals[i], 1) \o "/\n"
         \o AppendedText(patch, i + 1)

RECURSIVE ExpectedText(_, _)
\* The output of the claim: the first occurrence of every patched name is
\* patched, every other group is copied, the groups left follow the source
ExpectedText(groups, patch) ==
    IF groups = <<>> THEN AppendedText(patch, 1)
    ELSE IF DictHas(patch, Lower(Head(groups).name))
    THEN PatchedText(Head(groups), DictGet(patch, Lower(Head(groups).name)))
         \o ExpectedText(Tail(groups), DictDel(patch, Lower(Head(groups).name)))
    ELSE GroupText(Head(groups)) \o ExpectedText(Tail(groups), patch)

RECURSIVE PatchedNml(_, _, _)
\* The group n with the variables of p from position i set
PatchedNml(n, p, i) ==
    IF i > Len(p.keys) THEN n
    ELSE PatchedNml(NmlSetItem(n, p.keys[i], p.vals[i]), p, i + 1)

RECURSIVE ExpectedGroups(_, _)
\* The groups of the result in file order as pairs of name and Namelist,
\* followed by the groups left in the patch
ExpectedGroups(groups, patch) ==
    IF groups = <<>>
    THEN [i \in 1..Len(patch.keys) |-> <<patch.keys[i], patch.vals[i]>>]
    ELSE IF DictHas(patch, Lower(Head(groups).name))
    THEN <<<<Lower(Head(groups).name),
             PatchedNml(BodyNml(Head(groups).body),
                        DictGet(patch, Lower(Head(groups).name)), 1)>>>>
         \o ExpectedGroups(Tail(groups), DictDel(patch, Lower(Head(groups).name)))
    ELSE <<<<Lower(Head(groups).name), BodyNml(Head(groups).body)>>>>
         \o ExpectedGroups(Tail(groups), patch)

\* The groups of n in the order of the mapping, under their names
GroupsOf(n) == [i \in 1..Len(n.keys) |-> <<CogroupBasename(n.keys[i]), n.vals[i]>>]

RECURSIVE CountOf(_, _)
\* The number of places of text at which part starts
CountOf(part, text) ==
    IF Len(text) < Len(part) THEN 0
    ELSE (IF StartsWith(text, part) THEN 1 ELSE 0) + CountOf(part, Tail(text))

\* Every variable of every group of the patch is written once
WrittenOnce(patch, text) ==
    \A i \in 1..Len(patch.keys) : \A j \in 1..Len(patch.vals[i].keys) :
        CountOf(patch.vals[i].keys[j] \o " = "
                    \o IntToStr(patch.vals[i].vals[j].v), text) = 1

\* C30: when the name of a patched group occurs several times in the
\* source, the patch is consumed by the first occurrence: every variable of
\* the patch is written once in the output, in place of the value of the
\* first occurrence or before its terminator, the later occurrences are
\* copied unchanged, the groups of the patch that the source has not follow
\* the last token of the source once, and the Namelist returned holds the
\* patched first occurrence, the later occurrences as read and the groups
\* left in the patch.
C30_FirstOccurrence ==
    RepeatedRead =>
        /\ pc = "done"
        /\ parser.out = ExpectedText(input.groups, input.patch)
        /\ WrittenOnce(input.patch, parser.out)
        /\ GroupsOf(nmls) = ExpectedGroups(input.groups, input.patch)
        /\ Len(NmlGetItem(nmls, "g").v) = Len(CogroupKeys(nmls, "g"))

\* &g x = 1 / &h / &G x = 1 / patched with z = 7 and x = 8 for g and with
\* y = 9 for h
C30_Witness ==
    /\ RepeatedRead
    /\ input.groups = <<[name |-> "g", body |-> "x = 1 "],
                        [name |-> "h", body |-> ""],
                        [name |-> "G", body |-> "x = 1 "]>>
    /\ input.patch = Nml2("g", Nml2("z", IntV(7), "x", IntV(8)),
                          "h", Nml1("y", IntV(9)))
    /\ parser.out = "&g x = 8     z = 7\n/\n&h     y = 9\n/\n&G x = 1 /\n"
    /\ nmls.keys = <<"_grp_g_0", "h", "_grp_g_1">>

====
